---- MODULE Spec2Model ----
(***************************************************************************)
(* A model of the Inkdrop Local HTTP Server client (src/mod.ts): the       *)
(* Basic-auth header, the URL builder, the Headers merge, the request /    *)
(* response pipeline of InkdropClient.request, the unknownutil shape       *)
(* predicates and the resource facades that pipe a response through them.  *)
(*                                                                         *)
(* JavaScript strings that the code computes with (header names and        *)
(* values, credentials, paths, query keys and values) are sequences of     *)
(* UTF-16 code units.  Strings inside decoded JSON payloads are only ever  *)
(* compared with literals and are TLA+ strings inside a tagged value.      *)
(***************************************************************************)
EXTENDS Integers, Sequences, FiniteSets, TLC

VARIABLES
    client,   \* the constructed InkdropClient: baseUrl, username, password, defaultHeaders
    call,     \* the one facade / request call the caller has in flight
    probe     \* input and result of a pure function under check

vars == <<client, call, probe>>

----------------------------------------------------------------------------
(* String literals of the source, as UTF-16 code units.                    *)

\* "Basic "
S_BasicSp == <<66,97,115,105,99,32>>
\* "Authorization"
S_Authorization == <<65,117,116,104,111,114,105,122,97,116,105,111,110>>
\* "Accept"
S_Accept == <<65,99,99,101,112,116>>
\* "Content-Type"
S_ContentType == <<67,111,110,116,101,110,116,45,84,121,112,101>>
\* "content-type"
S_content_type == <<99,111,110,116,101,110,116,45,116,121,112,101>>
\* "application/json"
S_application_json == <<97,112,112,108,105,99,97,116,105,111,110,47,106,115,111,110>>
\* ":"
S_Colon == <<58>>
\* ", "
S_CommaSp == <<44,32>>

----------------------------------------------------------------------------
(* basicAuthHeader: TextEncoder (UTF-8) and @std/encoding encodeBase64.    *)

IsHighSurrogate(c) == c >= 55296 /\ c <= 56319
IsLowSurrogate(c) == c >= 56320 /\ c <= 57343

\* new TextEncoder().encode(s): the UTF-8 bytes of a string of UTF-16 code
\* units; a surrogate pair is one 4-byte code point, an unpaired surrogate is
\* replaced by U+FFFD (EF BF BD).
RECURSIVE TextEncode(_)
TextEncode(s) ==
    IF s = <<>> THEN <<>>
    ELSE LET c == Head(s) IN
      IF c < 128 THEN <<c>> \o TextEncode(Tail(s))
      ELSE IF c < 2048
        THEN <<192 + (c \div 64), 128 + (c % 64)>> \o TextEncode(Tail(s))
      ELSE IF IsHighSurrogate(c) /\ Len(s) >= 2 /\ IsLowSurrogate(s[2])
        THEN LET cp == 65536 + (c - 55296) * 1024 + (s[2] - 56320) IN
             <<240 + (cp \div 262144), 128 + ((cp \div 4096) % 64),
               128 + ((cp \div 64) % 64), 128 + (cp % 64)>>
             \o TextEncode(Tail(Tail(s)))
      ELSE IF IsHighSurrogate(c) \/ IsLowSurrogate(c)
        THEN <<239, 191, 189>> \o TextEncode(Tail(s))
      ELSE <<224 + (c \div 4096), 128 + ((c \div 64) % 64), 128 + (c % 64)>>
           \o TextEncode(Tail(s))

\* The standard base64 alphabet A-Z a-z 0-9 + / as character codes.
Base64Char(i) ==
    IF i < 26 THEN 65 + i
    ELSE IF i < 52 THEN 97 + (i - 26)
    ELSE IF i < 62 THEN 48 + (i - 52)
    ELSE IF i = 62 THEN 43 ELSE 47

\* encodeBase64(bytes): 3 bytes -> 4 characters, the last group padded with "=".
RECURSIVE encodeBase64(_)
encodeBase64(b) ==
    IF Len(b) = 0 THEN <<>>
    ELSE IF Len(b) = 1
      THEN <<Base64Char(b[1] \div 4), Base64Char((b[1] % 4) * 16), 61, 61>>
    ELSE IF Len(b) = 2
      THEN <<Base64Char(b[1] \div 4),
             Base64Char((b[1] % 4) * 16 + (b[2] \div 16)),
             Base64Char((b[2] % 16) * 4), 61>>
    ELSE <<Base64Char(b[1] \div 4),
           Base64Char((b[1] % 4) * 16 + (b[2] \div 16)),
           Base64Char((b[2] % 16) * 4 + (b[3] \div 64)),
           Base64Char(b[3] % 64)>>
         \o encodeBase64(SubSeq(b, 4, Len(b)))

\* the header built without the ":" between the credentials
basicAuthHeader_NoColon(username, password) ==
    S_BasicSp \o encodeBase64(TextEncode(username \o password))

basicAuthHeader(username, password) ==
    S_BasicSp \o encodeBase64(TextEncode(username \o S_Colon \o password))

----------------------------------------------------------------------------
(* Small string helpers.                                                   *)

\* index of the first occurrence of character c in s, 0 when absent
RECURSIVE IndexFrom(_, _, _)
IndexFrom(s, c, i) ==
    IF i > Len(s) THEN 0 ELSE IF s[i] = c THEN i ELSE IndexFrom(s, c, i + 1)

IndexOf(s, c) == IndexFrom(s, c, 1)

\* index of the first character of s that is in set cs, 0 when absent
RECURSIVE IndexOfAnyFrom(_, _, _)
IndexOfAnyFrom(s, cs, i) ==
    IF i > Len(s) THEN 0 ELSE IF s[i] \in cs THEN i ELSE IndexOfAnyFrom(s, cs, i + 1)

IndexOfAny(s, cs) == IndexOfAnyFrom(s, cs, 1)

StartsWith(s, pre) == Len(s) >= Len(pre) /\ SubSeq(s, 1, Len(pre)) = pre

\* String.prototype.includes: sub occurs in s as a contiguous substring
Includes(s, sub) ==
    \E i \in 1..(Len(s) - Len(sub) + 1) : SubSeq(s, i, i + Len(sub) - 1) = sub

\* ASCII lower-casing, as the Headers class applies to header names
ToLower(s) == [i \in DOMAIN s |-> IF s[i] >= 65 /\ s[i] <= 90 THEN s[i] + 32 ELSE s[i]]

\* decimal digits of a natural number
RECURSIVE NatToString(_)
NatToString(n) ==
    IF n < 10 THEN <<48 + n>> ELSE NatToString(n \div 10) \o <<48 + (n % 10)>>

\* "true", "false", "null", "undefined"
S_true == <<116,114,117,101>>
S_false == <<102,97,108,115,101>>

\* String(value) of a scalar query value: a string is itself, an integer its
\* decimal digits with a leading "-" when negative, a boolean "true"/"false".
ToStringValue(v) ==
    IF v.t = "string" THEN v.s
    ELSE IF v.t = "number"
      THEN (IF v.n < 0 THEN <<45>> \o NatToString(0 - v.n) ELSE NatToString(v.n))
    ELSE IF v.b THEN S_true ELSE S_false

----------------------------------------------------------------------------
(* The Headers class: a map from lower-cased names to values.              *)

HeadersHas(h, name) == ToLower(name) \in DOMAIN h

\* Headers.get: defined where HeadersHas holds (null otherwise)
HeadersGet(h, name) == h[ToLower(name)]

HeadersSet(h, name, value) ==
    [n \in DOMAIN h \cup {ToLower(name)} |-> IF n = ToLower(name) THEN value ELSE h[n]]

\* Headers.append: a repeated name combines the values with ", "
HeadersAppend(h, name, value) ==
    IF HeadersHas(h, name)
      THEN HeadersSet(h, name, HeadersGet(h, name) \o S_CommaSp \o value)
      ELSE HeadersSet(h, name, value)

\* new Headers(init), init a sequence of <<name, value>> pairs (the record and
\* the array form of HeadersInit): every pair is appended in order.
RECURSIVE FillHeaders(_, _)
FillHeaders(h, init) ==
    IF init = <<>> THEN h
    ELSE FillHeaders(HeadersAppend(h, init[1][1], init[1][2]), Tail(init))

NewHeaders(init) == FillHeaders(<<>>, init)

----------------------------------------------------------------------------
(* The URL class, as far as buildUrl drives it: new URL(path, baseUrl),    *)
(* url.searchParams.append / set, url.toString().  Paths and bases are    *)
(* written in ASCII without dot segments, userinfo or characters the      *)
(* parser would escape; the query may carry percent-escapes.              *)

SchemeChars == (65..90) \cup (97..122) \cup (48..57) \cup {43, 45, 46}

\* the length of the "scheme:" prefix of s, 0 when s has none
SchemeEndAt(s, i) ==
    IF i > 1 /\ ((s[1] >= 65 /\ s[1] <= 90) \/ (s[1] >= 97 /\ s[1] <= 122))
       /\ \A j \in 1..(i - 1) : s[j] \in SchemeChars
    THEN i ELSE 0

SchemeEnd(s) == SchemeEndAt(s, IndexOf(s, 58))

\* the part of s from index i on
From(s, i) == SubSeq(s, i, Len(s))

\* s up to (excluding) index i, all of s when i = 0
UpTo(s, i) == IF i = 0 THEN s ELSE SubSeq(s, 1, i - 1)

\* s after index i, nothing when i = 0
Beyond(s, i) == IF i = 0 THEN <<>> ELSE From(s, i + 1)

\* s up to (excluding) the first character in cs, or all of s
Before(s, cs) == UpTo(s, IndexOfAny(s, cs))

\* s after (excluding) the first occurrence of c; <<>> when c is absent
After(s, c) == Beyond(s, IndexOf(s, c))

\* path and query of the text before the "#", with the fragment
SplitQuery(noFragment, fragment) ==
    [ path     |-> Before(noFragment, {63}),
      hasQuery |-> IndexOf(noFragment, 63) > 0,
      search   |-> After(noFragment, 63),
      fragment |-> fragment ]

\* path, query and fragment of the text that follows the authority
PathQueryFragment(rest) == SplitQuery(Before(rest, {35}), After(rest, 35))

InvalidUrl == [ok |-> FALSE]

UrlOf(scheme, authority, pqf) ==
    IF authority = <<>> THEN InvalidUrl
    ELSE [ ok |-> TRUE, scheme |-> scheme, host |-> ToLower(authority),
           path |-> IF pqf.path = <<>> THEN <<47>> ELSE pqf.path,
           hasQuery |-> pqf.hasQuery, search |-> pqf.search,
           fragment |-> pqf.fragment ]

\* the authority at the head of the text after "//", then the rest
AuthorityThenRest(scheme, authority, afterSlashes) ==
    UrlOf(scheme, authority, PathQueryFragment(From(afterSlashes, Len(authority) + 1)))

\* "//authority/path?query#fragment" under the given scheme
ParseAfterScheme(scheme, s) ==
    AuthorityThenRest(scheme, Before(From(s, 3), {47, 63, 35}), From(s, 3))

SchemeThenRest(s, e) ==
    IF e = 0 THEN InvalidUrl
    ELSE IF StartsWith(From(s, e + 1), <<47, 47>>)
      THEN ParseAfterScheme(ToLower(SubSeq(s, 1, e - 1)), From(s, e + 1))
    ELSE InvalidUrl

\* new URL(s): an absolute http(s)-like URL, or a TypeError (InvalidUrl)
ParseAbsoluteUrl(s) == SchemeThenRest(s, SchemeEnd(s))

\* the directory of a path: up to and including its last "/"
RECURSIVE DirOf(_)
DirOf(path) ==
    IF path = <<>> THEN <<47>>
    ELSE IF path[Len(path)] = 47 THEN path
    ELSE DirOf(SubSeq(path, 1, Len(path) - 1))

\* the reference path resolved against the parsed base: a base that does
\* not parse fails whatever the path is; an absolute URL takes nothing from
\* the base; "//..." replaces the authority; "/..." replaces the base's
\* path; "" is the base itself; anything else is joined to the directory of
\* the base's path
Resolve(path, base, absolute, pqf) ==
    IF ~base.ok THEN InvalidUrl
    ELSE IF absolute.ok THEN absolute
    ELSE IF StartsWith(path, <<47, 47>>) THEN ParseAfterScheme(base.scheme, path)
    ELSE IF StartsWith(path, <<47>>)
      THEN [base EXCEPT !.path = pqf.path, !.hasQuery = pqf.hasQuery,
                        !.search = pqf.search, !.fragment = pqf.fragment]
    ELSE IF pqf.path = <<>>
      THEN [base EXCEPT !.hasQuery = IF pqf.hasQuery THEN TRUE ELSE base.hasQuery,
                        !.search = IF pqf.hasQuery THEN pqf.search ELSE base.search,
                        !.fragment = pqf.fragment]
    ELSE [base EXCEPT !.path = DirOf(base.path) \o pqf.path,
                      !.hasQuery = pqf.hasQuery,
                      !.search = pqf.search, !.fragment = pqf.fragment]

\* new URL(path, baseUrl): throws (InvalidUrl) when the base is no absolute
\* URL, or the path cannot be resolved against it
NewUrl(path, baseUrl) ==
    Resolve(path, ParseAbsoluteUrl(baseUrl), ParseAbsoluteUrl(path), PathQueryFragment(path))

\* the pieces of s between occurrences of character c
RECURSIVE Split(_, _)
RECURSIVE SplitAt(_, _, _)
Split(s, c) == SplitAt(s, c, IndexOf(s, c))

SplitAt(s, c, i) ==
    IF i = 0 THEN <<s>> ELSE <<SubSeq(s, 1, i - 1)>> \o Split(From(s, i + 1), c)

PlusToSpace(s) == [i \in DOMAIN s |-> IF s[i] = 43 THEN 32 ELSE s[i]]

IsHexChar(c) == (c >= 48 /\ c <= 57) \/ (c >= 65 /\ c <= 70) \/ (c >= 97 /\ c <= 102)

HexValue(c) == IF c <= 57 THEN c - 48 ELSE IF c <= 70 THEN c - 55 ELSE c - 87

\* percent-decode: "%XX" with two hex digits is the byte XX, any other
\* character stands for its own UTF-8 bytes
RECURSIVE PercentDecode(_)
PercentDecode(s) ==
    IF s = <<>> THEN <<>>
    ELSE IF s[1] = 37 /\ Len(s) >= 3 /\ IsHexChar(s[2]) /\ IsHexChar(s[3])
      THEN <<HexValue(s[2]) * 16 + HexValue(s[3])>> \o PercentDecode(From(s, 4))
    ELSE TextEncode(<<s[1]>>) \o PercentDecode(Tail(s))

\* the UTF-16 code units of a code point
Utf16(cp) ==
    IF cp < 65536 THEN <<cp>>
    ELSE <<55296 + ((cp - 65536) \div 1024), 56320 + ((cp - 65536) % 1024)>>

IsContinuation(b, i, lo, hi) == Len(b) >= i /\ b[i] >= lo /\ b[i] <= hi

\* the least and greatest second byte after a lead byte
SecondLow(lead) == IF lead = 224 THEN 160 ELSE IF lead = 240 THEN 144 ELSE 128
SecondHigh(lead) == IF lead = 237 THEN 159 ELSE IF lead = 244 THEN 143 ELSE 191

\* UTF-8 decode: a byte sequence that is no UTF-8 gives U+FFFD and the
\* decoding goes on at the byte that broke it
RECURSIVE Utf8Decode(_)
Utf8Decode(b) ==
    IF b = <<>> THEN <<>>
    ELSE IF b[1] < 128 THEN <<b[1]>> \o Utf8Decode(From(b, 2))
    ELSE IF b[1] < 194 \/ b[1] > 244 THEN <<65533>> \o Utf8Decode(From(b, 2))
    ELSE IF ~IsContinuation(b, 2, SecondLow(b[1]), SecondHigh(b[1]))
      THEN <<65533>> \o Utf8Decode(From(b, 2))
    ELSE IF b[1] < 224
      THEN <<(b[1] - 192) * 64 + (b[2] - 128)>> \o Utf8Decode(From(b, 3))
    ELSE IF ~IsContinuation(b, 3, 128, 191) THEN <<65533>> \o Utf8Decode(From(b, 3))
    ELSE IF b[1] < 240
      THEN <<(b[1] - 224) * 4096 + (b[2] - 128) * 64 + (b[3] - 128)>>
           \o Utf8Decode(From(b, 4))
    ELSE IF ~IsContinuation(b, 4, 128, 191) THEN <<65533>> \o Utf8Decode(From(b, 4))
    ELSE Utf16((b[1] - 240) * 262144 + (b[2] - 128) * 4096 + (b[3] - 128) * 64 + (b[4] - 128))
         \o Utf8Decode(From(b, 5))

\* a name or a value of the query: "+" is a space, then percent-decoded
FormDecode(s) == Utf8Decode(PercentDecode(PlusToSpace(s)))

\* one "name=value" piece, split at the "=" at index i (0: no "=")
PairOf(p, i) ==
    IF i = 0 THEN <<FormDecode(p), <<>> >>
    ELSE <<FormDecode(SubSeq(p, 1, i - 1)), FormDecode(From(p, i + 1))>>

\* url.searchParams of a query string: the name/value pairs between "&",
\* split at the first "=", "+" read as a space, percent-decoded; empty
\* pieces are skipped.
RECURSIVE ParsePieces(_)
ParsePieces(pieces) ==
    IF pieces = <<>> THEN <<>>
    ELSE (IF Head(pieces) = <<>> THEN <<>>
          ELSE << PairOf(Head(pieces), IndexOf(Head(pieces), 61)) >>)
         \o ParsePieces(Tail(pieces))

ParseQuery(search) == ParsePieces(Split(search, 38))

HexDigit(n) == IF n < 10 THEN 48 + n ELSE 55 + n

\* application/x-www-form-urlencoded byte serialisation: alphanumerics and
\* "*-._" stay, a space becomes "+", any other byte becomes %XX
FormEncodeByte(c) ==
    IF (c >= 48 /\ c <= 57) \/ (c >= 65 /\ c <= 90) \/ (c >= 97 /\ c <= 122)
       \/ c \in {42, 45, 46, 95}
      THEN <<c>>
    ELSE IF c = 32 THEN <<43>>
    ELSE <<37, HexDigit(c \div 16), HexDigit(c % 16)>>

RECURSIVE FormEncodeBytes(_)
FormEncodeBytes(b) ==
    IF b = <<>> THEN <<>> ELSE FormEncodeByte(Head(b)) \o FormEncodeBytes(Tail(b))

FormEncode(s) == FormEncodeBytes(TextEncode(s))

\* the serialisation of a searchParams list: name=value joined by "&"
RECURSIVE SerializeQuery(_)
SerializeQuery(list) ==
    IF list = <<>> THEN <<>>
    ELSE FormEncode(list[1][1]) \o <<61>> \o FormEncode(list[1][2])
         \o (IF Len(list) > 1 THEN <<38>> \o SerializeQuery(Tail(list)) ELSE <<>>)

\* URLSearchParams.append(name, value)
SearchAppend(list, name, value) == Append(list, <<name, value>>)

\* the list without the pairs named name
RECURSIVE SearchDelete(_, _)
SearchDelete(list, name) ==
    IF list = <<>> THEN <<>>
    ELSE (IF list[1][1] = name THEN <<>> ELSE <<list[1]>>) \o SearchDelete(Tail(list), name)

\* index of the first pair named name, 0 when there is none
RECURSIVE FirstNamed(_, _, _)
FirstNamed(list, name, i) ==
    IF i > Len(list) THEN 0
    ELSE IF list[i][1] = name THEN i
    ELSE FirstNamed(list, name, i + 1)

SetAt(list, name, value, i) ==
    IF i = 0 THEN Append(list, <<name, value>>)
    ELSE SubSeq(list, 1, i - 1) \o << <<name, value>> >>
         \o SearchDelete(From(list, i + 1), name)

\* URLSearchParams.set(name, value): the first pair named name takes the
\* value in place and the other pairs of that name go; appended when none.
SearchSet(list, name, value) == SetAt(list, name, value, FirstNamed(list, name, 1))

\* url.toString()
UrlToString(url) ==
    url.scheme \o <<58, 47, 47>> \o url.host \o url.path
    \o (IF url.hasQuery THEN <<63>> \o url.search ELSE <<>>)
    \o (IF url.fragment # <<>> THEN <<35>> \o url.fragment ELSE <<>>)

----------------------------------------------------------------------------
(* buildUrl.  A params map is [present |-> BOOLEAN, entries |-> sequence   *)
(* of <<key, value>> in Object.entries order]; a value is tagged           *)
(* undefined, null, string, number, boolean or array (of scalars).         *)

\* "http://127.0.0.1:19840"
DefaultBaseUrl == <<104,116,116,112,58,47,47,49,50,55,46,48,46,48,46,49,58,49,57,56,52,48>>

\* a loop over the array that sets the key to each element in turn
RECURSIVE AppendItems_Set(_, _, _)
AppendItems_Set(list, key, items) ==
    IF items = <<>> THEN list
    ELSE AppendItems_Set(SearchSet(list, key, ToStringValue(Head(items))), key, Tail(items))

RECURSIVE AppendItems(_, _, _)
AppendItems(list, key, items) ==
    IF items = <<>> THEN list
    ELSE AppendItems(SearchAppend(list, key, ToStringValue(Head(items))), key, Tail(items))

\* one turn of the loop of buildUrl, in which a key whose value is null or
\* undefined is sent as "key="
ApplyParam_KeepNull(list, key, value) ==
    IF value.t \in {"null", "undefined"} THEN SearchSet(list, key, <<>>)
    ELSE IF value.t = "array" THEN AppendItems(list, key, value.items)
    ELSE SearchSet(list, key, ToStringValue(value))

\* one turn of the loop of buildUrl over Object.entries(params)
ApplyParam(list, key, value) ==
    IF value.t \in {"null", "undefined"} THEN list
    ELSE IF value.t = "array" THEN AppendItems(list, key, value.items)
    ELSE SearchSet(list, key, ToStringValue(value))

\* the loop of buildUrl, on the searchParams list
RECURSIVE ApplyParams(_, _)
ApplyParams(list, entries) ==
    IF entries = <<>> THEN list
    ELSE ApplyParams(ApplyParam(list, entries[1][1], entries[1][2]), Tail(entries))

\* whether the loop calls append or set at least once (the URL's query is
\* re-serialised from the list only then)
TouchesQuery(entries) ==
    \E i \in 1..Len(entries) :
        /\ entries[i][2].t \notin {"null", "undefined"}
        /\ (entries[i][2].t = "array" => entries[i][2].items # <<>>)

\* the searchParams list of url after the loop over params
ParamsOf(url, params) ==
    IF ~params.present THEN ParseQuery(url.search)
    ELSE ApplyParams(ParseQuery(url.search), params.entries)

\* the URL with its query re-serialised from the list
WithSearch(url, text) == [url EXCEPT !.search = text, !.hasQuery = (text # <<>>)]

WithParams(url, params) ==
    IF ~url.ok THEN InvalidUrl
    ELSE IF ~params.present \/ ~TouchesQuery(params.entries) THEN url
    ELSE WithSearch(url, SerializeQuery(ParamsOf(url, params)))

\* the searchParams list of the URL buildUrl returns
buildUrlParams(baseUrl, path, params) == ParamsOf(NewUrl(path, baseUrl), params)

\* buildUrl: InvalidUrl stands for the TypeError new URL throws
buildUrl(baseUrl, path, params) == WithParams(NewUrl(path, baseUrl), params)

----------------------------------------------------------------------------
(* Decoded JSON payloads and the @core/unknownutil predicates.  A payload  *)
(* is a tagged value; an object's v maps its own keys to values, and a     *)
(* missing key reads as undefined.                                         *)

JsonUndefined == [t |-> "undefined"]
JsonNull == [t |-> "null"]
JsonString(s) == [t |-> "string", s |-> s]
JsonNumber(n) == [t |-> "number", n |-> n]
JsonBoolean(b) == [t |-> "boolean", b |-> b]
JsonArray(items) == [t |-> "array", items |-> items]
JsonObject(fields) == [t |-> "object", fields |-> fields]

\* x[key] of an object
Prop(x, key) == IF key \in DOMAIN x.fields THEN x.fields[key] ELSE JsonUndefined

isString(x) == x.t = "string"
isNumber(x) == x.t = "number"
isBoolean(x) == x.t = "boolean"
\* is.Jsonable on a value JSON.parse produced: anything but undefined
isJsonable(x) == x.t # "undefined"
\* is.LiteralOf(lit)
isLiteralOf(lit, x) == x.t = "string" /\ x.s = lit
\* as.Optional(pred): undefined (a missing key) or pred
asOptional(pred(_), x) == x.t = "undefined" \/ pred(x)
\* is.ArrayOf(pred)
isArrayOf(pred(_), x) == x.t = "array" /\ \A i \in DOMAIN x.items : pred(x.items[i])
\* is.RecordOf(pred, is.String): a plain object whose every value satisfies pred
isRecordOf(pred(_), x) == x.t = "object" /\ \A k \in DOMAIN x.fields : pred(x.fields[k])
\* the guard of is.ObjectOf: not null, not a primitive, not an array
isObjectLike(x) == x.t = "object"

isArrayOfString(x) == isArrayOf(isString, x)

isInkdropServerInfo(x) ==
    /\ isObjectLike(x)
    /\ isString(Prop(x, "app"))
    /\ isString(Prop(x, "version"))
    /\ isString(Prop(x, "apiVersion"))

\* a validator that does not look at rev
isMutationResponse_NoRev(x) ==
    /\ isObjectLike(x)
    /\ isBoolean(Prop(x, "ok"))
    /\ isString(Prop(x, "id"))

isMutationResponse(x) ==
    /\ isObjectLike(x)
    /\ isBoolean(Prop(x, "ok"))
    /\ isString(Prop(x, "id"))
    /\ isString(Prop(x, "rev"))

\* a base validator that lets the revision be missing
isInkdropDocBase_RevOptional(x) ==
    /\ isObjectLike(x)
    /\ isString(Prop(x, "_id"))
    /\ asOptional(isString, Prop(x, "_rev"))
    /\ asOptional(isNumber, Prop(x, "createdAt"))
    /\ asOptional(isNumber, Prop(x, "updatedAt"))

isInkdropDocBase(x) ==
    /\ isObjectLike(x)
    /\ isString(Prop(x, "_id"))
    /\ isString(Prop(x, "_rev"))
    /\ asOptional(isNumber, Prop(x, "createdAt"))
    /\ asOptional(isNumber, Prop(x, "updatedAt"))

NoteStatuses == {"none", "active", "onHold", "completed", "dropped"}

isNoteStatus(x) == \E lit \in NoteStatuses : isLiteralOf(lit, x)

isNoteShare(x) == \E lit \in {"private", "public"} : isLiteralOf(lit, x)

\* a note validator that leaves status optional
isNoteDoc_StatusOptional(x) ==
    /\ isInkdropDocBase(x)
    /\ isLiteralOf("markdown", Prop(x, "doctype"))
    /\ isString(Prop(x, "bookId"))
    /\ asOptional(isNoteStatus, Prop(x, "status"))
    /\ asOptional(isNoteShare, Prop(x, "share"))
    /\ asOptional(isString, Prop(x, "migratedBy"))
    /\ asOptional(isNumber, Prop(x, "numOfTasks"))
    /\ asOptional(isNumber, Prop(x, "numOfCheckedTasks"))
    /\ asOptional(isBoolean, Prop(x, "pinned"))
    /\ asOptional(isString, Prop(x, "title"))
    /\ asOptional(isString, Prop(x, "body"))
    /\ asOptional(isArrayOfString, Prop(x, "tags"))

isNoteDoc(x) ==
    /\ isInkdropDocBase(x)
    /\ isLiteralOf("markdown", Prop(x, "doctype"))
    /\ isString(Prop(x, "bookId"))
    /\ isNoteStatus(Prop(x, "status"))
    /\ asOptional(isNoteShare, Prop(x, "share"))
    /\ asOptional(isString, Prop(x, "migratedBy"))
    /\ asOptional(isNumber, Prop(x, "numOfTasks"))
    /\ asOptional(isNumber, Prop(x, "numOfCheckedTasks"))
    /\ asOptional(isBoolean, Prop(x, "pinned"))
    /\ asOptional(isString, Prop(x, "title"))
    /\ asOptional(isString, Prop(x, "body"))
    /\ asOptional(isArrayOfString, Prop(x, "tags"))

isBookDoc(x) ==
    /\ isInkdropDocBase(x)
    /\ isString(Prop(x, "name"))
    /\ asOptional(isString, Prop(x, "parentBookId"))

\* a tag validator that requires the colour
isTagDoc_ColorRequired(x) ==
    /\ isInkdropDocBase(x)
    /\ isString(Prop(x, "name"))
    /\ isString(Prop(x, "color"))
    /\ asOptional(isNumber, Prop(x, "count"))

isTagDoc(x) ==
    /\ isInkdropDocBase(x)
    /\ isString(Prop(x, "name"))
    /\ asOptional(isString, Prop(x, "color"))
    /\ asOptional(isNumber, Prop(x, "count"))

isAttachmentData(x) ==
    /\ isObjectLike(x)
    /\ isString(Prop(x, "digest"))
    /\ isString(Prop(x, "content_type"))
    /\ isNumber(Prop(x, "revpos"))
    /\ asOptional(isJsonable, Prop(x, "data"))

isAttachments(x) == isRecordOf(isAttachmentData, x)

isFileDoc(x) ==
    /\ isInkdropDocBase(x)
    /\ isString(Prop(x, "name"))
    /\ asOptional(isString, Prop(x, "contentType"))
    /\ asOptional(isNumber, Prop(x, "contentLength"))
    /\ asOptional(isString, Prop(x, "md5digest"))
    /\ asOptional(isNumber, Prop(x, "revpos"))
    /\ asOptional(isArrayOfString, Prop(x, "publicIn"))
    /\ asOptional(isAttachments, Prop(x, "_attachments"))

\* one of the predicates, by name
Satisfies(pred, x) ==
    CASE pred = "isNoteDoc" -> isNoteDoc(x)
      [] pred = "isBookDoc" -> isBookDoc(x)
      [] pred = "isTagDoc" -> isTagDoc(x)
      [] pred = "isFileDoc" -> isFileDoc(x)
      [] pred = "isMutationResponse" -> isMutationResponse(x)
      [] OTHER -> FALSE

\* is.UnionOf(preds): the predicates are tried in order until one accepts
RECURSIVE isUnionOf(_, _)
isUnionOf(preds, x) ==
    IF preds = <<>> THEN FALSE
    ELSE IF Satisfies(Head(preds), x) THEN TRUE
    ELSE isUnionOf(Tail(preds), x)

\* a union that leaves out the file documents
isAnyDoc_NoFile(x) == isUnionOf(<<"isNoteDoc", "isBookDoc", "isTagDoc">>, x)

isAnyDoc(x) == isUnionOf(<<"isNoteDoc", "isBookDoc", "isTagDoc", "isFileDoc">>, x)

isArrayOfNoteDoc(x) == isArrayOf(isNoteDoc, x)
isArrayOfBookDoc(x) == isArrayOf(isBookDoc, x)
isArrayOfTagDoc(x) == isArrayOf(isTagDoc, x)
isArrayOfFileDoc(x) == isArrayOf(isFileDoc, x)

\* a settled promise: fulfilled with a value or rejected with an error
Return(value) == [kind |-> "return", value |-> value]
Throw(error) == [kind |-> "throw", error |-> error]

\* an ensure that hands the value on unchecked
ensure_Unchecked(x, accepted) == Return(x)

\* ensure(x, pred), given whether pred accepts x: x itself, or an AssertError
ensure(x, accepted) ==
    IF accepted THEN Return(x) ELSE Throw([name |-> "AssertError"])

----------------------------------------------------------------------------
(* The client: constructor, request bodies, the request sent.              *)

\* the values a caller passes: scalars, arrays and objects (an object's
\* entries in insertion order), and the raw body types of the platform
JsUndefined == [t |-> "undefined"]
JsNull == [t |-> "null"]
JsString(s) == [t |-> "string", s |-> s]
JsNumber(n) == [t |-> "number", n |-> n]
JsBoolean(b) == [t |-> "boolean", b |-> b]
JsArray(items) == [t |-> "array", items |-> items]
JsObject(entries) == [t |-> "object", entries |-> entries]
JsRaw(type) == [t |-> type]

RawBodyTypes ==
    {"Blob", "ArrayBuffer", "Uint8Array", "ReadableStream", "FormData", "URLSearchParams"}

\* a test that knows strings only
isBodyInitLike_StringOnly(body) == body.t = "string"

isBodyInitLike(body) == body.t = "string" \/ body.t \in RawBodyTypes

\* the characters of a string inside a JSON string literal: the quote and
\* the backslash are escaped (the inputs hold no control characters)
RECURSIVE JsonEscape(_)
JsonEscape(s) ==
    IF s = <<>> THEN <<>>
    ELSE (IF Head(s) \in {34, 92} THEN <<92, Head(s)>> ELSE <<Head(s)>>) \o JsonEscape(Tail(s))

JsonQuote(s) == <<34>> \o JsonEscape(s) \o <<34>>

\* "null"
S_null == <<110,117,108,108>>

\* JSON.stringify(value): object entries whose value is undefined are left
\* out, an undefined array item is written null
RECURSIVE JsonStringify(_)
RECURSIVE JsonItems(_)
RECURSIVE JsonMembers(_, _)
JsonStringify(v) ==
    CASE v.t = "string" -> JsonQuote(v.s)
      [] v.t = "number" -> ToStringValue(v)
      [] v.t = "boolean" -> ToStringValue(v)
      [] v.t = "array" -> <<91>> \o JsonItems(v.items) \o <<93>>
      [] v.t = "object" -> <<123>> \o JsonMembers(v.entries, TRUE) \o <<125>>
      [] OTHER -> S_null

JsonItems(items) ==
    IF items = <<>> THEN <<>>
    ELSE JsonStringify(Head(items))
         \o (IF Len(items) > 1 THEN <<44>> \o JsonItems(Tail(items)) ELSE <<>>)

JsonMembers(entries, first) ==
    IF entries = <<>> THEN <<>>
    ELSE IF entries[1][2].t = "undefined" THEN JsonMembers(Tail(entries), first)
    ELSE (IF first THEN <<>> ELSE <<44>>)
         \o JsonQuote(entries[1][1]) \o <<58>> \o JsonStringify(entries[1][2])
         \o JsonMembers(Tail(entries), FALSE)

\* the Accept default of the constructor
WithAccept(headers) ==
    IF HeadersHas(headers, S_Accept) THEN headers
    ELSE HeadersSet(headers, S_Accept, S_application_json)

\* a constructor that sets Authorization whatever the headers option holds
WithAuthorization_Always(headers, username, password) ==
    HeadersSet(headers, S_Authorization, basicAuthHeader(username, password))

\* the Authorization default of the constructor
WithAuthorization(headers, username, password) ==
    IF HeadersHas(headers, S_Authorization) THEN headers
    ELSE HeadersSet(headers, S_Authorization, basicAuthHeader(username, password))

\* the default headers the constructor assembles
ConstructorHeaders(options) ==
    WithAccept(WithAuthorization(NewHeaders(options.headers),
                                 options.username, options.password))

\* a constructor that takes an empty baseUrl for a missing one (|| for ??)
NewInkdropClient_EmptyIsDefault(options) ==
    [ baseUrl        |-> IF options.baseUrl.present /\ options.baseUrl.url # <<>>
                           THEN options.baseUrl.url ELSE DefaultBaseUrl,
      username       |-> options.username,
      password       |-> options.password,
      defaultHeaders |-> ConstructorHeaders(options),
      options        |-> options ]

\* new InkdropClient(options); options.baseUrl is [present, url], headers a
\* sequence of pairs (empty when the option is left out).  The options are
\* kept beside the fields for the properties to refer to.
NewInkdropClient(options) ==
    [ baseUrl        |-> IF options.baseUrl.present THEN options.baseUrl.url ELSE DefaultBaseUrl,
      username       |-> options.username,
      password       |-> options.password,
      defaultHeaders |-> ConstructorHeaders(options),
      options        |-> options ]

\* headers.set(key, value) for every entry of over
RECURSIVE SetAll(_, _, _)
RECURSIVE SetNext(_, _, _, _)
SetAll(h, over, names) ==
    IF names = {} THEN h ELSE SetNext(h, over, names, CHOOSE x \in names : TRUE)

SetNext(h, over, names, n) == SetAll(HeadersSet(h, n, over[n]), over, names \ {n})

Overlay(base, over) == SetAll(base, over, DOMAIN over)

\* a merge in which the client's defaults win over the caller's headers
MergeHeaders_DefaultsWin(defaults, callerInit) == Overlay(NewHeaders(callerInit), defaults)

\* new Headers(this.defaultHeaders) overlaid with the caller's headers
MergeHeaders(defaults, callerInit) == Overlay(defaults, NewHeaders(callerInit))

\* the body handed to the transport and the headers after Content-Type inference
\* a coding that sets Content-Type over the one the headers hold
EncodeBody_AlwaysJsonType(headers, body) ==
    IF body.t = "undefined" THEN [headers |-> headers, body |-> JsUndefined]
    ELSE IF isBodyInitLike(body) THEN [headers |-> headers, body |-> body]
    ELSE [ headers |-> HeadersSet(headers, S_ContentType, S_application_json),
           body |-> JsString(JsonStringify(body)) ]

EncodeBody(headers, body) ==
    IF body.t = "undefined" THEN [headers |-> headers, body |-> JsUndefined]
    ELSE IF isBodyInitLike(body) THEN [headers |-> headers, body |-> body]
    ELSE [ headers |-> IF HeadersHas(headers, S_ContentType) THEN headers
                       ELSE HeadersSet(headers, S_ContentType, S_application_json),
           body |-> JsString(JsonStringify(body)) ]

\* the argument list of this.fetcher
FetchArgs(url, method, encoded, signal) ==
    [ ok |-> TRUE, url |-> UrlToString(url), method |-> method,
      headers |-> encoded.headers, body |-> encoded.body, signal |-> signal ]

RequestFor(url, cl, method, options) ==
    IF ~url.ok THEN [ok |-> FALSE, error |-> [name |-> "TypeError", from |-> "URL"]]
    ELSE FetchArgs(url, method,
                   EncodeBody(MergeHeaders(cl.defaultHeaders, options.headers), options.body),
                   options.signal)

\* request(method, path, options) up to the call of the transport: the
\* argument list of this.fetcher, or the TypeError of new URL
BuildRequest(cl, method, path, options) ==
    RequestFor(buildUrl(cl.baseUrl, path, options.params), cl, method, options)

----------------------------------------------------------------------------
(* The response side of request, and the facades.                          *)

\* "Inkdrop API error: "
S_ErrorPrefix == <<73,110,107,100,114,111,112,32,65,80,73,32,101,114,114,111,114,58,32>>

\* a response.ok that takes every status below 400 for a success
ResponseOk_Below400(resp) == resp.status >= 200 /\ resp.status <= 399

\* response.ok
ResponseOk(resp) == resp.status >= 200 /\ resp.status <= 299

\* response.headers.get("content-type") ?? ""
ContentTypeOf(resp) ==
    IF HeadersHas(resp.headers, S_content_type) THEN HeadersGet(resp.headers, S_content_type)
    ELSE <<>>

\* a test that takes the header for JSON only when it is application/json
\* and nothing more
hasJson_Exact(resp) == ContentTypeOf(resp) = S_application_json

\* contentType.includes("application/json")
hasJson(resp) == Includes(ContentTypeOf(resp), S_application_json)

\* the method of the response that request awaits for the body
BodyReader(resp) == IF hasJson(resp) THEN "json" ELSE "text"

\* whether request reads the body at all
ReadsBody_Always(resp) == TRUE

ReadsBody(resp) == resp.status # 204

\* await response.json() / await response.text(): the body's JSON value or
\* its text, a SyntaxError when the text is no JSON, or the transport's own
\* error when the body stream fails
ReadBody(resp) ==
    IF resp.body.broken THEN Throw([name |-> "TypeError", from |-> "transport"])
    ELSE IF BodyReader(resp) = "json"
      THEN (IF resp.body.json.t = "SyntaxError" THEN Throw([name |-> "SyntaxError"])
            ELSE Return(resp.body.json))
    ELSE Return(JsonString(resp.body.text))

InkdropError(resp, payload) ==
    [ name       |-> "InkdropError",
      message    |-> S_ErrorPrefix \o NatToString(resp.status) \o <<32>> \o resp.statusText,
      status     |-> resp.status,
      statusText |-> resp.statusText,
      body       |-> payload ]

\* the end of request: the payload, or an InkdropError carrying it
Classify(resp, payload) ==
    IF ResponseOk(resp) THEN Return(payload) ELSE Throw(InkdropError(resp, payload))

\* "/notes", "/books", "/tags", "/files", "/"
S_notes == <<47,110,111,116,101,115>>
S_books == <<47,98,111,111,107,115>>
S_tags == <<47,116,97,103,115>>
S_files == <<47,102,105,108,101,115>>
S_slash == <<47>>

ListOps == {"notes.list", "books.list", "tags.list", "files.list"}
PostOps == {"notes.upsert", "books.upsert", "tags.upsert", "files.create"}

\* the tags facade pointed at the path of the notes
ResourcePath_TagsOnNotes(op) ==
    CASE op \in {"notes.list", "notes.upsert", "tags.list", "tags.upsert"} -> S_notes
      [] op \in {"books.list", "books.upsert"} -> S_books
      [] op \in {"files.list", "files.create"} -> S_files

ResourcePath(op) ==
    CASE op \in {"notes.list", "notes.upsert"} -> S_notes
      [] op \in {"books.list", "books.upsert"} -> S_books
      [] op \in {"tags.list", "tags.upsert"} -> S_tags
      [] op \in {"files.list", "files.create"} -> S_files

NoHeaders == <<>>

\* facades whose POST leaves the caller's document out
FacadeRequest_BodyDropped(inv) ==
    CASE inv.op \in ListOps \cup {"docs.get"} ->
           [ method |-> "GET",
             path |-> IF inv.op = "docs.get" THEN S_slash \o inv.docId ELSE ResourcePath(inv.op),
             options |-> [params |-> inv.params, headers |-> NoHeaders,
                          body |-> JsUndefined, signal |-> JsUndefined] ]
      [] inv.op \in PostOps ->
           [ method |-> "POST", path |-> ResourcePath(inv.op),
             options |-> [params |-> [present |-> FALSE, entries |-> <<>>],
                          headers |-> NoHeaders, body |-> JsUndefined, signal |-> JsUndefined] ]
      [] inv.op = "docs.delete" ->
           [ method |-> "DELETE", path |-> S_slash \o inv.docId,
             options |-> [params |-> [present |-> FALSE, entries |-> <<>>],
                          headers |-> NoHeaders, body |-> JsUndefined, signal |-> JsUndefined] ]
      [] OTHER ->
           [ method |-> inv.method, path |-> inv.path,
             options |-> [params |-> inv.params, headers |-> inv.headers,
                          body |-> inv.body, signal |-> inv.signal] ]

\* the request(method, path, options) call a facade method makes through
\* client.get / client.post / client.delete; op "request" is the caller's own
FacadeRequest(inv) ==
    CASE inv.op \in ListOps ->
           [ method |-> "GET", path |-> ResourcePath(inv.op),
             options |-> [params |-> inv.params, headers |-> NoHeaders,
                          body |-> JsUndefined, signal |-> JsUndefined] ]
      [] inv.op \in PostOps ->
           [ method |-> "POST", path |-> ResourcePath(inv.op),
             options |-> [params |-> [present |-> FALSE, entries |-> <<>>],
                          headers |-> NoHeaders, body |-> inv.body, signal |-> JsUndefined] ]
      [] inv.op = "docs.get" ->
           [ method |-> "GET", path |-> S_slash \o inv.docId,
             options |-> [params |-> inv.params, headers |-> NoHeaders,
                          body |-> JsUndefined, signal |-> JsUndefined] ]
      [] inv.op = "docs.delete" ->
           [ method |-> "DELETE", path |-> S_slash \o inv.docId,
             options |-> [params |-> [present |-> FALSE, entries |-> <<>>],
                          headers |-> NoHeaders, body |-> JsUndefined, signal |-> JsUndefined] ]
      [] OTHER ->
           [ method |-> inv.method, path |-> inv.path,
             options |-> [params |-> inv.params, headers |-> inv.headers,
                          body |-> inv.body, signal |-> inv.signal] ]

\* list methods that ask for an array and do not look at its elements
Validates_ArrayOnly(op, x) ==
    CASE op \in ListOps -> x.t = "array"
      [] op \in PostOps \cup {"docs.delete"} -> isMutationResponse(x)
      [] op = "docs.get" -> isAnyDoc(x)

\* whether the predicate a facade method hands to ensure accepts x
Validates(op, x) ==
    CASE op = "notes.list" -> isArrayOfNoteDoc(x)
      [] op = "books.list" -> isArrayOfBookDoc(x)
      [] op = "tags.list" -> isArrayOfTagDoc(x)
      [] op = "files.list" -> isArrayOfFileDoc(x)
      [] op \in PostOps \cup {"docs.delete"} -> isMutationResponse(x)
      [] op = "docs.get" -> isAnyDoc(x)

\* a continuation that lets a null payload through unvalidated
FacadeThen_NullPasses(op, result) ==
    IF op = "request" \/ result.kind = "throw" THEN result
    ELSE IF result.value.t = "null" THEN result
    ELSE ensure(result.value, Validates(op, result.value))

\* the .then callback of a facade method on the settled request promise: a
\* rejection passes through, a value goes through ensure; a caller of
\* request itself gets the promise as it is
FacadeThen(op, result) ==
    IF op = "request" \/ result.kind = "throw" THEN result
    ELSE ensure(result.value, Validates(op, result.value))

Pending == [kind |-> "pending"]
NoRequest == [ok |-> FALSE]
NoResponse == [status |-> 0]
NoError == [name |-> "none", from |-> "none"]

IdleCall ==
    [ pc |-> "idle", inv |-> [op |-> "none"], request |-> NoRequest, fetches |-> 0,
      response |-> NoResponse, raised |-> NoError, reader |-> "none",
      payload |-> JsonUndefined,
      result |-> Pending, outcome |-> Pending ]

Started(inv, req) ==
    IF req.ok
      THEN [IdleCall EXCEPT !.pc = "fetch", !.inv = inv, !.request = req, !.fetches = 1]
      ELSE [IdleCall EXCEPT !.pc = "settled", !.inv = inv, !.result = Throw(req.error)]

CallFrom(cl, inv, ll) == Started(inv, BuildRequest(cl, ll.method, ll.path, ll.options))

CallOf(inv, ll) == CallFrom(client, inv, ll)

\* a request that works on the client's own Headers object (no copy), so
\* that the caller's headers and the inferred Content-Type stay in it
AfterRequest_NoCopy(cl, options) ==
    [cl EXCEPT !.defaultHeaders =
                 EncodeBody(MergeHeaders(cl.defaultHeaders, options.headers), options.body).headers]

\* a request that merges the caller's headers into the client's own Headers
\* object instead of a copy
AfterRequest_SharedHeaders(cl, options) ==
    [cl EXCEPT !.defaultHeaders = MergeHeaders(cl.defaultHeaders, options.headers)]

\* the client after a request was built: the headers are merged in a copy,
\* new Headers(this.defaultHeaders), and the fields are readonly, so it is
\* the client as it was
AfterRequest(cl, options) == cl

\* a facade method or request is called: everything up to the await of the
\* transport.  When new URL throws, the promise is rejected before any fetch.
Invoke(inv) ==
    /\ call.pc = "idle"
    /\ call' = CallOf(inv, FacadeRequest(inv))
    /\ client' = AfterRequest(client, FacadeRequest(inv).options)
    /\ UNCHANGED probe

\* the call once the transport has resolved with a response: a 204 is
\* settled at once with a null payload; otherwise the body is awaited
Resolved(c, resp) ==
    IF ReadsBody(resp)
      THEN [c EXCEPT !.pc = "body", !.response = resp, !.reader = BodyReader(resp)]
      ELSE [c EXCEPT !.pc = "settled", !.response = resp, !.payload = JsonNull,
                     !.result = Classify(resp, JsonNull)]

\* the transport resolves with a response
FetchResolve(resp) ==
    /\ call.pc = "fetch"
    /\ call' = Resolved(call, resp)
    /\ UNCHANGED <<client, probe>>

\* the transport can raise err: an abort needs a signal to abort with
CanRaise(c, err) == err.name = "AbortError" => c.request.signal.t # "undefined"

\* a request that turns the transport's error into an InkdropError
Rejected_Wrapped(c, err) ==
    [c EXCEPT !.pc = "settled", !.raised = err,
              !.result = Throw([name |-> "InkdropError", from |-> err.name])]

\* the call once the transport has rejected: the await in request throws
\* what the transport raised (kept in raised) and request rejects with it
Rejected(c, err) == [c EXCEPT !.pc = "settled", !.raised = err, !.result = Throw(err)]

\* the transport rejects (network failure, timeout, abort)
FetchReject(err) ==
    /\ call.pc = "fetch"
    /\ CanRaise(call, err)
    /\ call' = Rejected(call, err)
    /\ UNCHANGED <<client, probe>>

Settled(c, read) ==
    IF read.kind = "throw"
      THEN [c EXCEPT !.pc = "settled", !.result = read]
      ELSE [c EXCEPT !.pc = "settled", !.payload = read.value,
                     !.result = Classify(c.response, read.value)]

\* response.json() / response.text() settles; then the status is classified
BodySettle ==
    /\ call.pc = "body"
    /\ call' = Settled(call, ReadBody(call.response))
    /\ UNCHANGED <<client, probe>>

\* the caller has taken the outcome; the next call may be made
Finish ==
    /\ call.pc = "done"
    /\ call' = IdleCall
    /\ UNCHANGED <<client, probe>>

\* the call once the facade's continuation has run on the settled request
Continued(c) == [c EXCEPT !.pc = "done", !.outcome = FacadeThen(c.inv.op, c.result)]

\* the facade's continuation runs on the settled request
Continue ==
    /\ call.pc = "settled"
    /\ call' = Continued(call)
    /\ UNCHANGED <<client, probe>>

----------------------------------------------------------------------------
(* Specifications of the pure functions: the inputs are drawn in Init and  *)
(* one action applies the function.                                        *)

\* the other variables where a specification does not use them
Unused == [unused |-> TRUE]

\* all sequences over chars of length at most n
SeqsUpTo(chars, n) == UNION {[1..k -> chars] : k \in 0..n}

\* "u", ":", U+00E9, U+20AC, a high and a low surrogate (together U+1F600)
AuthChars == {117, 58, 233, 8364, 55357, 56832}

MaxCredLen == 2

\* "user", "pass"
S_user == <<117,115,101,114>>
S_pass == <<112,97,115,115>>

AuthInputs ==
    {<<u, p>> : u \in SeqsUpTo(AuthChars, MaxCredLen), p \in SeqsUpTo(AuthChars, MaxCredLen)}
    \cup {<<S_user, S_pass>>}

InitAuth ==
    /\ probe \in {[fn |-> "basicAuthHeader", username |-> c[1], password |-> c[2],
                   done |-> FALSE, out |-> <<>>] : c \in AuthInputs}
    /\ client = Unused
    /\ call = Unused

CallBasicAuthHeader ==
    /\ ~probe.done
    /\ probe' = [probe EXCEPT !.done = TRUE,
                              !.out = basicAuthHeader(probe.username, probe.password)]
    /\ UNCHANGED <<client, call>>

SpecAuth == InitAuth /\ [][CallBasicAuthHeader]_vars

\* query keys "a", "b", "c"
ParamKeys == {<<97>>, <<98>>, <<99>>}

\* "v", "x y"; 10, -1; true; ["x y", 10], ["v", "v"], []
ParamValues ==
    { JsUndefined, JsNull, JsString(<<118>>), JsString(<<120, 32, 121>>),
      JsNumber(10), JsNumber(0 - 1), JsBoolean(TRUE),
      JsArray(<<JsString(<<120, 32, 121>>), JsNumber(10)>>),
      JsArray(<<JsString(<<118>>), JsString(<<118>>)>>), JsArray(<<>>) }

MaxParams == 2

\* maps of at most MaxParams entries with distinct keys, and no map at all
ParamMaps ==
    { [present |-> FALSE, entries |-> <<>>] }
    \cup { [present |-> TRUE, entries |-> e] :
             e \in { x \in SeqsUpTo(ParamKeys \X ParamValues, MaxParams) :
                       \A i, j \in DOMAIN x : i # j => x[i][1] # x[j][1] } }

\* "/x", "/x?a=1", "/x?b=0&a=1&a=2", "limit", "descending"
S_x == <<47,120>>
S_xa == <<47,120,63,97,61,49>>
S_xbaa == <<47,120,63,98,61,48,38,97,61,49,38,97,61,50>>
S_limit == <<108,105,109,105,116>>
S_descending == <<100,101,115,99,101,110,100,105,110,103>>

UrlPaths == {S_x, S_xa, S_xbaa}

\* "http://h/?a=1": a base that carries a query, kept by the empty path
S_baseWithQuery == <<104,116,116,112,58,47,47,104,47,63,97,61,49>>

\* "/x?q=%C3%A9+1%2": a query with an encoded U+00E9, a "+" and a stray "%"
S_xEncoded == <<47,120,63,113,61,37,67,51,37,65,57,43,49,37,50>>

\* {c: U+00E9 U+20AC}
WideParam == [present |-> TRUE, entries |-> << <<<<99>>, JsString(<<233, 8364>>)>> >>]

\* {a: null}, {b: "v"}
NullParams == [present |-> TRUE, entries |-> << <<<<97>>, JsNull>> >>]
OneParam == [present |-> TRUE, entries |-> << <<<<98>>, JsString(<<118>>)>> >>]

\* the two calls of the documentation: {limit: 10, descending: true} on
\* /notes and {a: undefined, b: "v"} on /x
UrlExamples ==
    { <<DefaultBaseUrl, S_notes, [present |-> TRUE,
                  entries |-> << <<S_limit, JsNumber(10)>>, <<S_descending, JsBoolean(TRUE)>> >>]>>,
      <<DefaultBaseUrl, S_x, [present |-> TRUE,
              entries |-> << <<<<97>>, JsUndefined>>, <<<<98>>, JsString(<<118>>)>> >>]>> }
    \cup ({S_baseWithQuery} \X {<<>>, S_x} \X {NullParams, OneParam})
    \cup ({DefaultBaseUrl} \X {S_x, S_xEncoded} \X {OneParam, WideParam})

InitUrl ==
    /\ probe \in {[fn |-> "buildUrl", baseUrl |-> c[1], path |-> c[2],
                   params |-> c[3], done |-> FALSE, url |-> InvalidUrl, list |-> <<>>] :
                  c \in ({DefaultBaseUrl} \X UrlPaths \X ParamMaps) \cup UrlExamples}
    /\ client = Unused
    /\ call = Unused

CallBuildUrl ==
    /\ ~probe.done
    /\ probe' = [probe EXCEPT
                   !.done = TRUE,
                   !.url = buildUrl(probe.baseUrl, probe.path, probe.params),
                   !.list = buildUrlParams(probe.baseUrl, probe.path, probe.params)]
    /\ UNCHANGED <<client, call>>

SpecUrl == InitUrl /\ [][CallBuildUrl]_vars

----------------------------------------------------------------------------
(* Payloads to validate: every combination of the discriminating fields,   *)
(* one-field deviations of a full document of each kind, and non-objects.  *)

\* the object with the given fields, those set to undefined left out
ObjectOfFields(f) ==
    JsonObject([k \in {n \in DOMAIN f : f[n].t # "undefined"} |-> f[k]])

ValidAttachments ==
    JsonObject("a.png" :> JsonObject("digest" :> JsonString("md5-x")
                                     @@ "content_type" :> JsonString("image/png")
                                     @@ "revpos" :> JsonNumber(1)))

InvalidAttachments ==
    JsonObject("a.png" :> JsonObject("digest" :> JsonString("md5-x")))

\* full documents of each kind
FullNote ==
    JsonObject("_id" :> JsonString("note:1") @@ "_rev" :> JsonString("1-a")
               @@ "createdAt" :> JsonNumber(1) @@ "updatedAt" :> JsonNumber(2)
               @@ "doctype" :> JsonString("markdown") @@ "bookId" :> JsonString("book:1")
               @@ "status" :> JsonString("active") @@ "share" :> JsonString("private")
               @@ "migratedBy" :> JsonString("m") @@ "numOfTasks" :> JsonNumber(2)
               @@ "numOfCheckedTasks" :> JsonNumber(1) @@ "pinned" :> JsonBoolean(FALSE)
               @@ "title" :> JsonString("t") @@ "body" :> JsonString("b")
               @@ "tags" :> JsonArray(<<JsonString("tag:1")>>))

FullBook ==
    JsonObject("_id" :> JsonString("book:1") @@ "_rev" :> JsonString("1-a")
               @@ "createdAt" :> JsonNumber(1) @@ "updatedAt" :> JsonNumber(2)
               @@ "name" :> JsonString("n") @@ "parentBookId" :> JsonString("book:0"))

FullTag ==
    JsonObject("_id" :> JsonString("tag:1") @@ "_rev" :> JsonString("1-a")
               @@ "createdAt" :> JsonNumber(1) @@ "updatedAt" :> JsonNumber(2)
               @@ "name" :> JsonString("n") @@ "color" :> JsonString("red")
               @@ "count" :> JsonNumber(3))

FullFile ==
    JsonObject("_id" :> JsonString("file:1") @@ "_rev" :> JsonString("1-a")
               @@ "createdAt" :> JsonNumber(1) @@ "updatedAt" :> JsonNumber(2)
               @@ "name" :> JsonString("a.png") @@ "contentType" :> JsonString("image/png")
               @@ "contentLength" :> JsonNumber(9) @@ "md5digest" :> JsonString("x")
               @@ "revpos" :> JsonNumber(1) @@ "publicIn" :> JsonArray(<<JsonString("note:1")>>)
               @@ "_attachments" :> ValidAttachments)

MutationOk ==
    JsonObject("ok" :> JsonBoolean(TRUE) @@ "id" :> JsonString("note:1")
               @@ "rev" :> JsonString("2-b"))

\* every combination of the fields that tell the document kinds apart
ProductDocs ==
    { ObjectOfFields("_id" :> id @@ "_rev" :> rev @@ "createdAt" :> created
                     @@ "doctype" :> doctype @@ "bookId" :> bookId @@ "status" :> status
                     @@ "name" :> name @@ "parentBookId" :> parent @@ "color" :> color
                     @@ "_attachments" :> attachments) :
        id \in {JsonUndefined, JsonString("doc:1"), JsonNumber(1)},
        rev \in {JsonUndefined, JsonString("1-a")},
        created \in {JsonUndefined, JsonNumber(1), JsonString("now")},
        doctype \in {JsonUndefined, JsonString("markdown"), JsonString("html")},
        bookId \in {JsonUndefined, JsonString("book:1")},
        status \in {JsonUndefined, JsonString("active"), JsonString("archived")},
        name \in {JsonUndefined, JsonString("n"), JsonNumber(1)},
        parent \in {JsonUndefined, JsonString("book:0"), JsonNull},
        color \in {JsonUndefined, JsonNumber(1)},
        attachments \in {JsonUndefined, InvalidAttachments} }

DocFields ==
    { "_id", "_rev", "createdAt", "updatedAt", "doctype", "bookId", "status", "share",
      "migratedBy", "numOfTasks", "numOfCheckedTasks", "pinned", "title", "body", "tags",
      "name", "parentBookId", "color", "count", "contentType", "contentLength",
      "md5digest", "revpos", "publicIn", "_attachments" }

EditValues ==
    { JsonUndefined, JsonNull, JsonString("s"), JsonNumber(7), JsonBoolean(TRUE),
      JsonArray(<<JsonNumber(7)>>), InvalidAttachments }

\* doc with one field replaced (or removed, by undefined)
WithField(doc, key, value) ==
    ObjectOfFields([k \in DOMAIN doc.fields \cup {key} |-> IF k = key THEN value ELSE doc.fields[k]])

SingleEdits ==
    { WithField(doc, key, value) :
        doc \in {FullNote, FullBook, FullTag, FullFile}, key \in DocFields, value \in EditValues }

NonDocs ==
    { JsonNull, JsonString("text"), JsonNumber(1), JsonBoolean(TRUE), JsonArray(<<>>),
      JsonArray(<<FullNote>>), JsonObject(<<>>), MutationOk }

Payloads == ProductDocs \cup SingleEdits \cup {FullNote, FullBook, FullTag, FullFile} \cup NonDocs

InitPred ==
    /\ probe \in {[fn |-> "validate", payload |-> x, done |-> FALSE,
                   accepts |-> [p \in {"isNoteDoc", "isBookDoc", "isTagDoc", "isFileDoc", "isAnyDoc"} |-> FALSE],
                   result |-> Return(JsonUndefined),
                   listed |-> [op \in ListOps |-> Return(JsonUndefined)]] : x \in Payloads}
    /\ client = Unused
    /\ call = Unused

\* the four document predicates and their union applied to a decoded payload,
\* what the continuation of docs.get makes of that payload, and what the
\* continuation of each list makes of the array that holds it
ValidatePayload ==
    /\ ~probe.done
    /\ probe' = [probe EXCEPT
                   !.done = TRUE,
                   !.accepts = [p \in DOMAIN probe.accepts |->
                                  IF p = "isAnyDoc" THEN isAnyDoc(probe.payload)
                                  ELSE Satisfies(p, probe.payload)],
                   !.result = FacadeThen("docs.get", Return(probe.payload)),
                   !.listed = [op \in ListOps |->
                                 FacadeThen(op, Return(JsonArray(<<probe.payload>>)))]]
    /\ UNCHANGED <<client, call>>

SpecPred == InitPred /\ [][ValidatePayload]_vars

----------------------------------------------------------------------------
(* The client at work: a client is constructed, the caller makes one call  *)
(* after another, and the transport answers each.                          *)

\* headers options of the constructor: none; authorization: Bearer t;
\* ACCEPT: text/plain with X-Trace: 1; Authorization: Bearer t with accept: text/plain
ClientHeaderOptions ==
    { NoHeaders,
      << <<<<97,117,116,104,111,114,105,122,97,116,105,111,110>>, <<66,101,97,114,101,114,32,116>>>> >>,
      << <<<<65,67,67,69,80,84>>, <<116,101,120,116,47,112,108,97,105,110>>>>, <<<<88,45,84,114,97,99,101>>, <<49>>>> >>,
      << <<<<65,117,116,104,111,114,105,122,97,116,105,111,110>>, <<66,101,97,114,101,114,32,116>>>>, <<<<97,99,99,101,112,116>>, <<116,101,120,116,47,112,108,97,105,110>>>> >> }

\* "http://127.0.0.1:19840" by default, or the empty string or "/x" given as
\* baseUrl
ClientOptions ==
    { [baseUrl |-> [present |-> FALSE, url |-> <<>>], username |-> S_user,
       password |-> S_pass, headers |-> h] : h \in ClientHeaderOptions }
    \cup { [baseUrl |-> b, username |-> <<>>, password |-> <<>>, headers |-> NoHeaders] :
              b \in {[present |-> FALSE, url |-> <<>>], [present |-> TRUE, url |-> <<>>],
                     [present |-> TRUE, url |-> S_x]} }

NoParams == [present |-> FALSE, entries |-> <<>>]

\* {limit: 10}
LimitParams == [present |-> TRUE, entries |-> << <<S_limit, JsNumber(10)>> >>]

\* "note:1", "book:1", "name", "n", "_id"
S_note1 == <<110,111,116,101,58,49>>
S_book1 == <<98,111,111,107,58,49>>
S_name == <<110,97,109,101>>
S_n == <<110>>
S_id == <<95,105,100>>

\* "/h/x", "note:1?rev=1", "note:1#f"
S_slash_h_x == <<47,104,47,120>>
S_note1_rev == <<110,111,116,101,58,49,63,114,101,118,61,49>>
S_note1_f == <<110,111,116,101,58,49,35,102>>

DocIds == {S_note1, S_book1, S_slash_h_x, S_note1_rev, S_note1_f}

\* {_id: "book:1", name: "n"}
UpsertInput == JsObject(<< <<S_id, JsString(S_book1)>>, <<S_name, JsString(S_n)>> >>)

\* headers of one request: none; content-type: text/plain;
\* AUTHORIZATION: Bearer u; X-Trace: 2 with Accept: text/html
ContentTypeGiven == << <<<<99,111,110,116,101,110,116,45,116,121,112,101>>, <<116,101,120,116,47,112,108,97,105,110>>>> >>

RequestHeaderOptions ==
    { NoHeaders,
      ContentTypeGiven,
      << <<<<65,85,84,72,79,82,73,90,65,84,73,79,78>>, <<66,101,97,114,101,114,32,117>>>> >>,
      << <<<<88,45,84,114,97,99,101>>, <<50>>>>, <<<<65,99,99,101,112,116>>, <<116,101,120,116,47,104,116,109,108>>>> >> }

RequestBodies ==
    { JsUndefined, JsNull, JsString(S_n), JsRaw("Blob"),
      JsObject(<< <<S_name, JsString(S_n)>> >>) }

AbortSignal == JsRaw("AbortSignal")

FacadeCall(op, docId, params, body) ==
    [ op |-> op, docId |-> docId, params |-> params, body |-> body,
      method |-> "", path |-> <<>>, headers |-> NoHeaders, signal |-> JsUndefined ]

RequestCall(method, path, params, headers, body, signal) ==
    [ op |-> "request", docId |-> <<>>, params |-> params, body |-> body,
      method |-> method, path |-> path, headers |-> headers, signal |-> signal ]

Invocations ==
    { FacadeCall(op, <<>>, NoParams, JsUndefined) : op \in ListOps }
    \cup { FacadeCall("notes.list", <<>>, LimitParams, JsUndefined) }
    \cup { FacadeCall(op, <<>>, NoParams, UpsertInput) : op \in PostOps }
    \cup { FacadeCall("docs.get", id, NoParams, JsUndefined) : id \in DocIds }
    \cup { FacadeCall("docs.delete", id, NoParams, JsUndefined) : id \in DocIds }
    \cup { RequestCall("POST", S_notes, NoParams, h, UpsertInput, JsUndefined) :
             h \in RequestHeaderOptions }
    \cup { RequestCall("POST", S_notes, NoParams, h, b, JsUndefined) :
             h \in {NoHeaders, ContentTypeGiven}, b \in RequestBodies }
    \cup { RequestCall("POST", S_notes, NoParams, NoHeaders, JsRaw(type), JsUndefined) :
             type \in RawBodyTypes }
    \cup { RequestCall("GET", path, pm, NoHeaders, JsUndefined, JsUndefined) :
             path \in {S_notes, S_xa}, pm \in {NoParams, LimitParams} }
    \cup { RequestCall("GET", S_notes, NoParams, NoHeaders, JsUndefined, AbortSignal) }
    \cup { RequestCall("GET", S_baseWithQuery, NoParams, NoHeaders, JsUndefined, JsUndefined) }

\* "OK", "No Content", "", "Multiple Choices", "Not Found", "Internal Server Error"
StatusLines ==
    { <<200, <<79,75>>>>,
      <<204, <<78,111,32,67,111,110,116,101,110,116>>>>,
      <<299, <<>> >>,
      <<300, <<77,117,108,116,105,112,108,101,32,67,104,111,105,99,101,115>>>>,
      <<404, <<78,111,116,32,70,111,117,110,100>>>>,
      <<500, <<73,110,116,101,114,110,97,108,32,83,101,114,118,101,114,32,69,114,114,111,114>>>> }

\* response headers: none; Content-Type: application/json; charset=utf-8;
\* content-type: text/plain; Content-Type: APPLICATION/JSON;
\* CONTENT-TYPE: text/x-application/json
ResponseHeaderOptions ==
    { NoHeaders,
      << <<S_ContentType, <<65,80,80,76,73,67,65,84,73,79,78,47,74,83,79,78>>>> >>,
      << <<<<67,79,78,84,69,78,84,45,84,89,80,69>>, <<116,101,120,116,47,120,45>> \o S_application_json>> >>,
      << <<<<67,111,110,116,101,110,116,45,84,121,112,101>>, <<97,112,112,108,105,99,97,116,105,111,110,47,106,115,111,110,59,32,99,104,97,114,115,101,116,61,117,116,102,45,56>>>> >>,
      << <<<<99,111,110,116,101,110,116,45,116,121,112,101>>, <<116,101,120,116,47,112,108,97,105,110>>>> >> }

SyntaxError == [t |-> "SyntaxError"]

NoteWithoutStatus == WithField(FullNote, "status", JsonUndefined)

MutationWithoutRev == WithField(MutationOk, "rev", JsonUndefined)

SecondNote == WithField(FullNote, "_id", JsonString("note:2"))

\* what the server attached: the text and, where the text is JSON, its value
ResponseBodies ==
    { [text |-> "[{\"_id\":\"note:1\",...}]", json |-> JsonArray(<<FullNote>>), broken |-> FALSE],
      [text |-> "[{\"_id\":\"note:1\",...},{...no status...}]",
       json |-> JsonArray(<<FullNote, NoteWithoutStatus>>), broken |-> FALSE],
      [text |-> "[{\"_id\":\"note:2\",...},{\"_id\":\"note:1\",...}]",
       json |-> JsonArray(<<SecondNote, FullNote>>), broken |-> FALSE],
      [text |-> "[{\"_id\":\"tag:1\",...},{\"_id\":\"book:1\",...}]",
       json |-> JsonArray(<<FullTag, FullBook>>), broken |-> FALSE],
      [text |-> "[]", json |-> JsonArray(<<>>), broken |-> FALSE],
      [text |-> "null", json |-> JsonNull, broken |-> FALSE],
      [text |-> "{\"_id\":\"note:1\",...no status...}", json |-> NoteWithoutStatus, broken |-> FALSE],
      [text |-> "{\"_id\":\"book:1\",...}", json |-> FullBook, broken |-> FALSE],
      [text |-> "{\"ok\":true,\"id\":\"note:1\",\"rev\":\"2-b\"}", json |-> MutationOk, broken |-> FALSE],
      [text |-> "{\"ok\":true,\"id\":\"note:1\"}", json |-> MutationWithoutRev, broken |-> FALSE],
      [text |-> "<html>Bad Gateway</html>", json |-> SyntaxError, broken |-> FALSE],
      [text |-> "", json |-> SyntaxError, broken |-> FALSE],
      [text |-> "{\"ok\":tr", json |-> SyntaxError, broken |-> TRUE] }

Responses ==
    { [status |-> st[1], statusText |-> st[2], headers |-> NewHeaders(h), body |-> b] :
        st \in StatusLines, h \in ResponseHeaderOptions, b \in ResponseBodies }

TransportErrors ==
    { [name |-> "TypeError", from |-> "transport"], [name |-> "AbortError", from |-> "transport"] }

Init ==
    /\ client \in {NewInkdropClient(o) : o \in ClientOptions}
    /\ call = IdleCall
    /\ probe = Unused

Next ==
    \/ \E inv \in Invocations : Invoke(inv)
    \/ \E resp \in Responses : FetchResolve(resp)
    \/ \E err \in TransportErrors : FetchReject(err)
    \/ BodySettle
    \/ Continue
    \/ Finish

Spec == Init /\ [][Next]_vars

----------------------------------------------------------------------------
(* Calls in flight at the same time on one client: each call is a promise  *)
(* chain of its own, and the event loop runs their steps in any order.     *)

MaxCalls == 2

CallIds == 1..MaxCalls

\* notes.list(), docs.get("note:1"), and a POST with AUTHORIZATION: Bearer u
ConcurrentInvocations ==
    { FacadeCall("notes.list", <<>>, NoParams, JsUndefined),
      FacadeCall("docs.get", S_note1, NoParams, JsUndefined),
      RequestCall("POST", S_notes, NoParams,
                  << <<<<65,85,84,72,79,82,73,90,65,84,73,79,78>>, <<66,101,97,114,101,114,32,117>>>> >>,
                  UpsertInput, JsUndefined) }

\* 200 with a list of one note, 200 with a note lacking status, 404 with JSON
ConcurrentResponses ==
    { r \in Responses :
        /\ StartsWith(ContentTypeOf(r), S_application_json)
        /\ ~r.body.broken
        /\ <<r.status, r.body.json>> \in { <<200, JsonArray(<<FullNote>>)>>,
                                           <<200, NoteWithoutStatus>>,
                                           <<404, MutationOk>> } }

ConnectionRefused == [name |-> "TypeError", from |-> "transport"]

InitConcurrent ==
    /\ client = NewInkdropClient([baseUrl |-> [present |-> FALSE, url |-> <<>>],
                                  username |-> S_user, password |-> S_pass,
                                  headers |-> NoHeaders])
    /\ probe = [fn |-> "concurrent", calls |-> [i \in CallIds |-> IdleCall], issued |-> <<>>]
    /\ call = Unused

\* call i is issued while any of the others may be in flight
InvokeAt(i, inv) ==
    /\ probe.calls[i].pc = "idle"
    /\ probe' = [probe EXCEPT !.calls[i] = CallOf(inv, FacadeRequest(inv)),
                              !.issued = Append(@, i)]
    /\ client' = AfterRequest(client, FacadeRequest(inv).options)
    /\ UNCHANGED call

\* the transport resolves call i
FetchResolveAt(i, resp) ==
    /\ probe.calls[i].pc = "fetch"
    /\ probe' = [probe EXCEPT !.calls[i] = Resolved(@, resp)]
    /\ UNCHANGED <<client, call>>

\* the transport rejects call i
FetchRejectAt(i, err) ==
    /\ probe.calls[i].pc = "fetch"
    /\ CanRaise(probe.calls[i], err)
    /\ probe' = [probe EXCEPT !.calls[i] = Rejected(@, err)]
    /\ UNCHANGED <<client, call>>

\* the body of the response to call i settles
BodySettleAt(i) ==
    /\ probe.calls[i].pc = "body"
    /\ probe' = [probe EXCEPT !.calls[i] = Settled(@, ReadBody(@.response))]
    /\ UNCHANGED <<client, call>>

\* the continuation of call i runs
ContinueAt(i) ==
    /\ probe.calls[i].pc = "settled"
    /\ probe' = [probe EXCEPT !.calls[i] = Continued(@)]
    /\ UNCHANGED <<client, call>>

NextConcurrent ==
    \/ \E i \in CallIds, inv \in ConcurrentInvocations : InvokeAt(i, inv)
    \/ \E i \in CallIds, resp \in ConcurrentResponses : FetchResolveAt(i, resp)
    \/ \E i \in CallIds : FetchRejectAt(i, ConnectionRefused)
    \/ \E i \in CallIds : BodySettleAt(i)
    \/ \E i \in CallIds : ContinueAt(i)

SpecConcurrent == InitConcurrent /\ [][NextConcurrent]_vars

----------------------------------------------------------------------------
(* A document is read with docs.get and handed back to the upsert of its   *)
(* kind on the same client.                                                *)

\* the members of a decoded document in the order of the text it was parsed
\* from; the payloads of the model keep no order, so the order in which the
\* types declare the fields stands for it
MemberOrder ==
    << "_id", "_rev", "createdAt", "updatedAt", "doctype", "bookId",
       "status", "share", "migratedBy", "numOfTasks", "numOfCheckedTasks", "pinned",
       "title", "body", "tags", "name", "parentBookId", "color",
       "count", "contentType", "contentLength", "md5digest", "revpos", "publicIn",
       "_attachments", "a.png", "digest", "content_type", "ok", "id",
       "rev" >>

Utf16Of(s) ==
    CASE s = "_id" -> <<95,105,100>>
      [] s = "_rev" -> <<95,114,101,118>>
      [] s = "createdAt" -> <<99,114,101,97,116,101,100,65,116>>
      [] s = "updatedAt" -> <<117,112,100,97,116,101,100,65,116>>
      [] s = "doctype" -> <<100,111,99,116,121,112,101>>
      [] s = "bookId" -> <<98,111,111,107,73,100>>
      [] s = "status" -> <<115,116,97,116,117,115>>
      [] s = "share" -> <<115,104,97,114,101>>
      [] s = "migratedBy" -> <<109,105,103,114,97,116,101,100,66,121>>
      [] s = "numOfTasks" -> <<110,117,109,79,102,84,97,115,107,115>>
      [] s = "numOfCheckedTasks" -> <<110,117,109,79,102,67,104,101,99,107,101,100,84,97,115,107,115>>
      [] s = "pinned" -> <<112,105,110,110,101,100>>
      [] s = "title" -> <<116,105,116,108,101>>
      [] s = "body" -> <<98,111,100,121>>
      [] s = "tags" -> <<116,97,103,115>>
      [] s = "name" -> <<110,97,109,101>>
      [] s = "parentBookId" -> <<112,97,114,101,110,116,66,111,111,107,73,100>>
      [] s = "color" -> <<99,111,108,111,114>>
      [] s = "count" -> <<99,111,117,110,116>>
      [] s = "contentType" -> <<99,111,110,116,101,110,116,84,121,112,101>>
      [] s = "contentLength" -> <<99,111,110,116,101,110,116,76,101,110,103,116,104>>
      [] s = "md5digest" -> <<109,100,53,100,105,103,101,115,116>>
      [] s = "revpos" -> <<114,101,118,112,111,115>>
      [] s = "publicIn" -> <<112,117,98,108,105,99,73,110>>
      [] s = "_attachments" -> <<95,97,116,116,97,99,104,109,101,110,116,115>>
      [] s = "a.png" -> <<97,46,112,110,103>>
      [] s = "digest" -> <<100,105,103,101,115,116>>
      [] s = "content_type" -> <<99,111,110,116,101,110,116,95,116,121,112,101>>
      [] s = "ok" -> <<111,107>>
      [] s = "id" -> <<105,100>>
      [] s = "rev" -> <<114,101,118>>
      [] s = "note:1" -> <<110,111,116,101,58,49>>
      [] s = "book:1" -> <<98,111,111,107,58,49>>
      [] s = "book:0" -> <<98,111,111,107,58,48>>
      [] s = "tag:1" -> <<116,97,103,58,49>>
      [] s = "file:1" -> <<102,105,108,101,58,49>>
      [] s = "1-a" -> <<49,45,97>>
      [] s = "2-b" -> <<50,45,98>>
      [] s = "markdown" -> <<109,97,114,107,100,111,119,110>>
      [] s = "active" -> <<97,99,116,105,118,101>>
      [] s = "private" -> <<112,114,105,118,97,116,101>>
      [] s = "m" -> <<109>>
      [] s = "t" -> <<116>>
      [] s = "b" -> <<98>>
      [] s = "n" -> <<110>>
      [] s = "red" -> <<114,101,100>>
      [] s = "image/png" -> <<105,109,97,103,101,47,112,110,103>>
      [] s = "x" -> <<120>>
      [] s = "md5-x" -> <<109,100,53,45,120>>

\* the decoded payload as the value the caller passes on
RECURSIVE AsJs(_)
RECURSIVE MembersOf(_, _)
AsJs(x) ==
    CASE x.t = "string" -> JsString(Utf16Of(x.s))
      [] x.t = "number" -> JsNumber(x.n)
      [] x.t = "boolean" -> JsBoolean(x.b)
      [] x.t = "null" -> JsNull
      [] x.t = "array" -> JsArray([i \in DOMAIN x.items |-> AsJs(x.items[i])])
      [] x.t = "object" -> JsObject(MembersOf(x, MemberOrder))
      [] OTHER -> JsUndefined

MembersOf(x, order) ==
    IF order = <<>> THEN <<>>
    ELSE (IF Head(order) \in DOMAIN x.fields
            THEN << <<Utf16Of(Head(order)), AsJs(x.fields[Head(order)])>> >>
            ELSE <<>>)
         \o MembersOf(x, Tail(order))

\* the facade method that takes a document of the kind doc is of
MatchingUpserts(doc) ==
    {op \in PostOps :
       \/ op = "notes.upsert" /\ isNoteDoc(doc)
       \/ op = "books.upsert" /\ isBookDoc(doc)
       \/ op = "tags.upsert" /\ isTagDoc(doc)
       \/ op = "files.create" /\ isFileDoc(doc)}

\* {"ok":true,"id":"book:1","rev":"2-b"}
MutationOkBook == WithField(MutationOk, "id", JsonString("book:1"))

JsonResponse(status, json) ==
    [ status |-> status, statusText |-> <<>>,
      headers |-> NewHeaders(<< <<S_content_type, S_application_json>> >>),
      body |-> [text |-> "", json |-> json, broken |-> FALSE] ]

\* what the server answers: a document of each kind, a note lacking status,
\* an acknowledgment for note:1 and one for book:1, one lacking rev, a 404
RoundTripResponses ==
    { JsonResponse(200, x) : x \in {FullNote, FullBook, FullTag, FullFile, NoteWithoutStatus,
                                    MutationOk, MutationOkBook, MutationWithoutRev} }
    \cup { JsonResponse(404, MutationOk) }

InitRoundTrip ==
    /\ client = NewInkdropClient([baseUrl |-> [present |-> FALSE, url |-> <<>>],
                                  username |-> S_user, password |-> S_pass,
                                  headers |-> NoHeaders])
    /\ call = IdleCall
    /\ probe = [fn |-> "roundtrip", stage |-> "get", doc |-> JsonUndefined]

\* docs.get(id)
GetDocument(id) ==
    /\ probe.stage = "get"
    /\ Invoke(FacadeCall("docs.get", id, NoParams, JsUndefined))

\* the document docs.get returned is handed to op
Resubmitted(op, doc) == FacadeCall(op, <<>>, NoParams, AsJs(doc))

Resubmit(op) ==
    /\ probe.stage = "get"
    /\ call.pc = "done"
    /\ call.outcome.kind = "return"
    /\ op \in MatchingUpserts(call.outcome.value)
    /\ call' = CallOf(Resubmitted(op, call.outcome.value),
                      FacadeRequest(Resubmitted(op, call.outcome.value)))
    /\ probe' = [probe EXCEPT !.stage = "upsert", !.doc = call.outcome.value]
    /\ UNCHANGED client

NextRoundTrip ==
    \/ \E id \in DocIds : GetDocument(id)
    \/ \E op \in PostOps : Resubmit(op)
    \/ \E resp \in RoundTripResponses : FetchResolve(resp)
    \/ FetchReject(ConnectionRefused)
    \/ BodySettle
    \/ Continue

SpecRoundTrip == InitRoundTrip /\ [][NextRoundTrip]_vars

----------------------------------------------------------------------------
(* Properties of request and of the facades, under Spec.                   *)

\* a response has come and request has settled on it
Answered == call.pc \in {"settled", "done"} /\ call.response.status # 0

\* the body of the response can be decoded: it is not read at all (204), or
\* its stream ends well and, where JSON is declared, its text is JSON
BodyDecodes(resp) ==
    \/ resp.status = 204
    \/ /\ ~resp.body.broken
       /\ hasJson(resp) => resp.body.json.t # "SyntaxError"

\* the payload the response decodes to
Decoded(resp) ==
    IF resp.status = 204 THEN JsonNull
    ELSE IF hasJson(resp) THEN resp.body.json
    ELSE JsonString(resp.body.text)

InRange2xx(status) == status >= 200 /\ status < 300

IsInkdropErrorOf(result, resp) ==
    /\ result.kind = "throw"
    /\ result.error.name = "InkdropError"
    /\ result.error.status = resp.status
    /\ result.error.statusText = resp.statusText
    /\ result.error.body = Decoded(resp)
    /\ Includes(result.error.message, NatToString(resp.status))
    /\ Includes(result.error.message, resp.statusText)

\* C1: for every response whose body decodes, request returns the decoded
\* payload exactly when the status is in [200,300); for any other status it
\* fails with an InkdropError whose status, statusText and body are the
\* response's status, status text and decoded payload and whose message
\* contains the numeric status and the status text.
C1_ReturnsIffStatus2xx ==
    (Answered /\ BodyDecodes(call.response)) =>
        IF InRange2xx(call.response.status)
          THEN call.result = Return(Decoded(call.response))
          ELSE IsInkdropErrorOf(call.result, call.response)

\* a 300 with a JSON body has been turned into an InkdropError carrying it
C1_Witness ==
    /\ Answered
    /\ call.response.status = 300
    /\ hasJson(call.response)
    /\ call.response.body.json = FullBook
    /\ IsInkdropErrorOf(call.result, call.response)
    /\ call.result.error.body = FullBook

\* C2: whenever the transport completes an exchange with a status outside
\* [200,300), the call fails with InkdropError and no other error kind, for
\* every content-type and every body, one that is not the JSON its
\* content-type declares included.
C2_Non2xxAlwaysInkdropError ==
    (Answered /\ ~call.response.body.broken /\ ~InRange2xx(call.response.status)) =>
        (call.result.kind = "throw" /\ call.result.error.name = "InkdropError")

\* the payload of a 2xx response, when request has returned one
Returned2xx ==
    /\ call.pc = "done"
    /\ call.response.status # 0
    /\ InRange2xx(call.response.status)
    /\ call.result.kind = "return"

IsValidationError(outcome) ==
    /\ outcome.kind = "throw"
    /\ outcome.error.name = "AssertError"
    /\ outcome.error.name # "InkdropError"

\* C3: when the decoded payload of a 2xx response does not satisfy the
\* predicate of the called operation (a note lacking status, say), docs.get
\* and every list operation fail with a validation error that is no
\* InkdropError, and return nothing.
C3_InvalidPayloadFailsValidation ==
    /\ (Returned2xx /\ call.inv.op \in ListOps \cup {"docs.get"}
          /\ ~Validates(call.inv.op, call.result.value))
       => IsValidationError(call.outcome)
    /\ (Returned2xx /\ call.inv.op = "docs.get" /\ call.result.value = NoteWithoutStatus)
       => IsValidationError(call.outcome)
    /\ (Returned2xx /\ call.inv.op = "notes.list"
          /\ call.result.value = JsonArray(<<FullNote, NoteWithoutStatus>>))
       => IsValidationError(call.outcome)

\* notes.list got a 200 whose second note lacks status, and failed validation
C3_Witness ==
    /\ Returned2xx
    /\ call.inv.op = "notes.list"
    /\ call.response.status = 200
    /\ call.result.value = JsonArray(<<FullNote, NoteWithoutStatus>>)
    /\ IsValidationError(call.outcome)

\* C6: for every response with status 204 request takes the payload to be
\* null, whatever the content-type and the body are, and returns null
\* without raising an InkdropError.
C6_Status204IsNull ==
    (Answered /\ call.response.status = 204) =>
        (call.payload = JsonNull /\ call.result = Return(JsonNull))

\* a 204 that declares JSON and carries a body that is none returned null
C6_Witness ==
    /\ Answered
    /\ call.response.status = 204
    /\ hasJson(call.response)
    /\ call.response.body.json.t = "SyntaxError"
    /\ call.result = Return(JsonNull)

\* the headers option the client was constructed with
Supplied == NewHeaders(client.options.headers)

\* the default of one header: the supplied value where one was supplied
\* under any spelling of the name, the fallback where none was
DefaultIs(name, fallback) ==
    /\ HeadersHas(client.defaultHeaders, name)
    /\ HeadersGet(client.defaultHeaders, name) =
         IF HeadersHas(Supplied, name) THEN HeadersGet(Supplied, name) ELSE fallback

\* C8: the default headers of a constructed client hold Authorization =
\* basicAuthHeader(username, password) only if the headers option supplied
\* no Authorization header (names compared without case), and Accept =
\* application/json only if none was supplied; supplied values are kept.
C8_DefaultsOnlyWhenNotSupplied ==
    /\ DefaultIs(S_Authorization, basicAuthHeader(client.username, client.password))
    /\ DefaultIs(S_Accept, S_application_json)
    /\ \A n \in DOMAIN Supplied : client.defaultHeaders[n] = Supplied[n]
    /\ DOMAIN client.defaultHeaders =
         DOMAIN Supplied \cup {ToLower(S_Authorization), ToLower(S_Accept)}

\* a client constructed with "authorization: Bearer t" and no Accept keeps
\* the bearer value and gets the Accept default
C8_Witness ==
    /\ HeadersHas(Supplied, S_Authorization)
    /\ ~HeadersHas(Supplied, S_Accept)
    /\ HeadersGet(client.defaultHeaders, S_Authorization) = HeadersGet(Supplied, S_Authorization)
    /\ HeadersGet(client.defaultHeaders, S_Authorization)
         # basicAuthHeader(client.username, client.password)
    /\ HeadersGet(client.defaultHeaders, S_Accept) = S_application_json

\* the transport has been called with a request
Sent == call.pc \in {"fetch", "body", "settled", "done"} /\ call.request.ok

\* the headers the caller gave to this call
CallerHeaders == NewHeaders(FacadeRequest(call.inv).options.headers)

\* C9: the headers request passes to the transport are the client's default
\* headers overlaid with the caller's: for every name (compared without
\* case) in the caller's headers the caller's value is sent, and every
\* default header the caller did not name is sent unchanged.
C9_CallerHeadersOverlayDefaults ==
    Sent =>
        /\ \A n \in DOMAIN CallerHeaders :
              n \in DOMAIN call.request.headers /\ call.request.headers[n] = CallerHeaders[n]
        /\ \A n \in DOMAIN client.defaultHeaders \ DOMAIN CallerHeaders :
              n \in DOMAIN call.request.headers
              /\ call.request.headers[n] = client.defaultHeaders[n]
        /\ DOMAIN call.request.headers \subseteq
              DOMAIN client.defaultHeaders \cup DOMAIN CallerHeaders \cup {S_content_type}

\* a call with "AUTHORIZATION: Bearer u" on a client whose default is the
\* Basic header: the bearer value went out, with the default Accept
C9_Witness ==
    /\ Sent
    /\ HeadersHas(CallerHeaders, S_Authorization)
    /\ HeadersGet(client.defaultHeaders, S_Authorization)
         = basicAuthHeader(client.username, client.password)
    /\ HeadersGet(call.request.headers, S_Authorization)
         = HeadersGet(CallerHeaders, S_Authorization)
    /\ HeadersGet(call.request.headers, S_Authorization)
         # HeadersGet(client.defaultHeaders, S_Authorization)
    /\ HeadersGet(call.request.headers, S_Accept) = S_application_json

----------------------------------------------------------------------------
(* Properties of the document predicates, under SpecPred.                  *)

DocPredicates == {"isNoteDoc", "isBookDoc", "isTagDoc", "isFileDoc"}

\* the predicates that accepted the validated payload
Accepting == {p \in DocPredicates : probe.accepts[p]}

\* a well-formed Book payload: string _id, _rev and name, an optional string
\* parentBookId, optional numeric timestamps, and no other field
IsWellFormedBook(x) ==
    /\ x.t = "object"
    /\ {"_id", "_rev", "name"} \subseteq DOMAIN x.fields
    /\ DOMAIN x.fields \subseteq {"_id", "_rev", "name", "parentBookId", "createdAt", "updatedAt"}
    /\ \A k \in DOMAIN x.fields :
          x.fields[k].t = IF k \in {"createdAt", "updatedAt"} THEN "number" ELSE "string"

HasStringName(x) ==
    x.t = "object" /\ "name" \in DOMAIN x.fields /\ x.fields["name"].t = "string"

\* C4 as stated: no payload satisfies more than one of isNoteDoc, isBookDoc,
\* isTagDoc and isFileDoc, and a well-formed Book payload satisfies isBookDoc
\* and none of the other three.
C4_MutuallyExclusive ==
    probe.done =>
        /\ Cardinality(Accepting) <= 1
        /\ IsWellFormedBook(probe.payload) => Accepting = {"isBookDoc"}

\* C4 as amended: a payload satisfies more than one of the four predicates
\* only if it has a string name; a well-formed Book payload satisfies
\* isBookDoc and isAnyDoc and not isNoteDoc, and satisfies isTagDoc and
\* isFileDoc as well.
C4_BookAlsoTagAndFile ==
    probe.done =>
        /\ Cardinality(Accepting) > 1 => HasStringName(probe.payload)
        /\ IsWellFormedBook(probe.payload) =>
              (Accepting = {"isBookDoc", "isTagDoc", "isFileDoc"} /\ probe.accepts["isAnyDoc"])

\* a Book payload with a parentBookId has been through the four predicates
C4_Witness ==
    /\ probe.done
    /\ probe.payload = FullBook
    /\ probe.accepts["isBookDoc"]
    /\ probe.accepts["isTagDoc"]
    /\ ~probe.accepts["isNoteDoc"]

\* the orders in which the four predicates can be tried
Orders ==
    { o \in [1..4 -> DocPredicates] : \A i, j \in 1..4 : i # j => o[i] # o[j] }

\* C5: isAnyDoc accepts a payload if and only if at least one of isNoteDoc,
\* isBookDoc, isTagDoc, isFileDoc accepts it, whatever the order in which the
\* four are tried; docs.get on a 2xx response whose payload matches none of
\* the four fails with a validation error.
C5_AnyDocIsUnion ==
    probe.done =>
        /\ probe.accepts["isAnyDoc"] = (Accepting # {})
        /\ \A o \in Orders : isUnionOf(o, probe.payload) = probe.accepts["isAnyDoc"]
        /\ Accepting = {} => IsValidationError(probe.result)
        /\ Accepting # {} => probe.result = Return(probe.payload)

\* a payload only isFileDoc accepts (the last predicate tried) was accepted
C5_Witness ==
    /\ probe.done
    /\ Accepting = {"isFileDoc"}
    /\ probe.accepts["isAnyDoc"]
    /\ probe.result = Return(probe.payload)

----------------------------------------------------------------------------
(* Properties of basicAuthHeader, under SpecAuth.                          *)

\* the value of a character of the standard base64 alphabet
Base64Value(c) == CHOOSE i \in 0..63 : Base64Char(i) = c

IsBase64Char(c) == \E i \in 0..63 : Base64Char(i) = c

\* the standard decoding of one group of four characters
DecodeGroup(g) ==
    IF g[3] = 61 THEN << Base64Value(g[1]) * 4 + (Base64Value(g[2]) \div 16) >>
    ELSE IF g[4] = 61
      THEN << Base64Value(g[1]) * 4 + (Base64Value(g[2]) \div 16),
              (Base64Value(g[2]) % 16) * 16 + (Base64Value(g[3]) \div 4) >>
    ELSE << Base64Value(g[1]) * 4 + (Base64Value(g[2]) \div 16),
            (Base64Value(g[2]) % 16) * 16 + (Base64Value(g[3]) \div 4),
            (Base64Value(g[3]) % 4) * 64 + Base64Value(g[4]) >>

RECURSIVE decodeBase64(_)
decodeBase64(text) ==
    IF text = <<>> THEN <<>>
    ELSE DecodeGroup(SubSeq(text, 1, 4)) \o decodeBase64(SubSeq(text, 5, Len(text)))

\* text is standard base64 with padding: groups of four characters of the
\* alphabet, "=" only at the end of the last group
IsStandardBase64(text) ==
    /\ Len(text) % 4 = 0
    /\ \A i \in 1..Len(text) :
          \/ IsBase64Char(text[i])
          \/ /\ text[i] = 61
             /\ i >= Len(text) - 1
             /\ i = Len(text) - 1 => text[Len(text)] = 61

\* the code units of one code point
CodeUnits(cp) ==
    IF cp < 65536 THEN <<cp>>
    ELSE << 55296 + ((cp - 65536) \div 1024), 56320 + ((cp - 65536) % 1024) >>

\* the text of well-formed UTF-8 bytes, as UTF-16 code units
RECURSIVE TextDecode(_)
TextDecode(b) ==
    IF b = <<>> THEN <<>>
    ELSE IF b[1] < 128 THEN <<b[1]>> \o TextDecode(SubSeq(b, 2, Len(b)))
    ELSE IF b[1] < 224
      THEN CodeUnits((b[1] - 192) * 64 + (b[2] - 128)) \o TextDecode(SubSeq(b, 3, Len(b)))
    ELSE IF b[1] < 240
      THEN CodeUnits((b[1] - 224) * 4096 + (b[2] - 128) * 64 + (b[3] - 128))
           \o TextDecode(SubSeq(b, 4, Len(b)))
    ELSE CodeUnits((b[1] - 240) * 262144 + (b[2] - 128) * 4096
                   + (b[3] - 128) * 64 + (b[4] - 128))
         \o TextDecode(SubSeq(b, 5, Len(b)))

\* no surrogate of s is unpaired
IsWellFormed(s) ==
    \A i \in 1..Len(s) :
       /\ IsHighSurrogate(s[i]) => (i < Len(s) /\ IsLowSurrogate(s[i + 1]))
       /\ IsLowSurrogate(s[i]) => (i > 1 /\ IsHighSurrogate(s[i - 1]))

\* the header is "Basic " and standard base64 that decodes to "u:p"
DecodesToCredentials(out, username, password) ==
    /\ StartsWith(out, S_BasicSp)
    /\ IsStandardBase64(SubSeq(out, Len(S_BasicSp) + 1, Len(out)))
    /\ TextDecode(decodeBase64(SubSeq(out, Len(S_BasicSp) + 1, Len(out))))
         = username \o S_Colon \o password

\* "Basic dXNlcjpwYXNz"
S_BasicUserPass == <<66,97,115,105,99,32,100,88,78,108,99,106,112,119,89,88,78,122>>

ExampleHolds ==
    (probe.username = S_user /\ probe.password = S_pass) => probe.out = S_BasicUserPass

\* C7 as stated: for all (u, p), basicAuthHeader(u, p) is "Basic " followed
\* by the standard padded base64 of "u:p", and decoding the part after
\* "Basic " yields exactly "u:p"; basicAuthHeader("user", "pass") is
\* "Basic dXNlcjpwYXNz".
C7_RoundTripAll ==
    probe.done =>
        /\ DecodesToCredentials(probe.out, probe.username, probe.password)
        /\ ExampleHolds

\* C7 as amended: the same for all (u, p) without an unpaired surrogate.
C7_RoundTripWellFormed ==
    (probe.done /\ IsWellFormed(probe.username) /\ IsWellFormed(probe.password)) =>
        /\ DecodesToCredentials(probe.out, probe.username, probe.password)
        /\ ExampleHolds

\* the header of a name outside the BMP and a password of a 3-byte character
C7_Witness ==
    /\ probe.done
    /\ probe.username = <<55357, 56832>>
    /\ probe.password = <<8364>>
    /\ DecodesToCredentials(probe.out, probe.username, probe.password)

----------------------------------------------------------------------------
(* Properties of buildUrl, under SpecUrl.                                  *)

IsScalar(v) == v.t \in {"string", "number", "boolean"}

\* key = String(value) for the scalar entries of a map, in entry order
RECURSIVE ScalarPairs(_)
ScalarPairs(entries) ==
    IF entries = <<>> THEN <<>>
    ELSE (IF IsScalar(entries[1][2])
            THEN << <<entries[1][1], ToStringValue(entries[1][2])>> >> ELSE <<>>)
         \o ScalarPairs(Tail(entries))

KeysOf(entries, types) == {entries[i][1] : i \in {j \in DOMAIN entries : entries[j][2].t \in types}}

\* the pairs of list whose name is one of keys, in the order of list
RECURSIVE PairsNamed(_, _)
PairsNamed(list, keys) ==
    IF list = <<>> THEN <<>>
    ELSE (IF list[1][1] \in keys THEN <<list[1]>> ELSE <<>>) \o PairsNamed(Tail(list), keys)

\* the query of the built URL, read back as name/value pairs
BuiltQuery == ParseQuery(probe.url.search)

\* "limit=10&descending=true", "b=v"
S_limit10DescendingTrue ==
    <<108,105,109,105,116,61,49,48,38,100,101,115,99,101,110,100,105,110,103,61,116,114,117,101>>
S_bv == <<98,61,118>>

UrlExamplesHold ==
    /\ (probe.path = S_notes /\ probe.params.present
          /\ probe.params.entries = << <<S_limit, JsNumber(10)>>, <<S_descending, JsBoolean(TRUE)>> >>)
       => probe.url.search = S_limit10DescendingTrue
    /\ (probe.path = S_x /\ probe.params.present
          /\ probe.params.entries = << <<<<97>>, JsUndefined>>, <<<<98>>, JsString(<<118>>)>> >>)
       => probe.url.search = S_bv

QueryFollowsParams ==
    /\ probe.url.ok
    /\ BuiltQuery = probe.list
    /\ PairsNamed(BuiltQuery, KeysOf(probe.params.entries, {"null", "undefined"})) = <<>>
    /\ PairsNamed(BuiltQuery, KeysOf(probe.params.entries, {"string", "number", "boolean"}))
         = ScalarPairs(probe.params.entries)
    /\ UrlExamplesHold

\* C10 as stated: for every params map the query of the built URL has no
\* entry for a key whose value is null or undefined and one entry
\* key=String(value) for every key with a scalar value, in the map's entry
\* order.
C10_QueryFromParams ==
    (probe.done /\ probe.params.present) => QueryFollowsParams

\* the query the path and the base bring along, before the params
OwnQuery == ParseQuery(NewUrl(probe.path, probe.baseUrl).search)

\* C10 as amended: the same when the URL the path resolves to against the
\* base carries no query of its own.
C10_QueryFromParamsPlainPath ==
    (probe.done /\ probe.params.present /\ OwnQuery = <<>>) => QueryFollowsParams

\* {a: null, b: "x y"} on /x: only b is in the query
C10_Witness ==
    /\ probe.done
    /\ probe.path = S_x
    /\ probe.params.present
    /\ probe.params.entries = << <<<<97>>, JsNull>>, <<<<98>>, JsString(<<120, 32, 121>>)>> >>
    /\ BuiltQuery = << <<<<98>>, <<120, 32, 121>>>> >>
    /\ QueryFollowsParams

\* key = String(item) for the elements of an array, in element order
ItemPairs(key, items) == [i \in DOMAIN items |-> <<key, ToStringValue(items[i])>>]

ArrayEntries == {i \in DOMAIN probe.params.entries : probe.params.entries[i][2].t = "array"}

\* C11 as stated: for every key whose value is an array the query has one
\* entry per element under that key, in element order, duplicates kept, so
\* the entries of the key are as many as the array is long (none for an
\* empty array), and the elements are never joined into one value.
C11_ArrayEntriesCount ==
    (probe.done /\ probe.params.present) =>
        \A i \in ArrayEntries :
            PairsNamed(BuiltQuery, {probe.params.entries[i][1]})
              = ItemPairs(probe.params.entries[i][1], probe.params.entries[i][2].items)

\* C11 as amended: the entries of the elements come after the entries the
\* URL already had under that key, which stay.
C11_ArrayEntriesAppended ==
    (probe.done /\ probe.params.present) =>
        \A i \in ArrayEntries :
            PairsNamed(BuiltQuery, {probe.params.entries[i][1]})
              = PairsNamed(OwnQuery, {probe.params.entries[i][1]})
                \o ItemPairs(probe.params.entries[i][1], probe.params.entries[i][2].items)

\* {a: ["v", "v"], b: []} on /x: a=v twice and no b
C11_Witness ==
    /\ probe.done
    /\ probe.path = S_x
    /\ probe.params.present
    /\ probe.params.entries = << <<<<97>>, JsArray(<<JsString(<<118>>), JsString(<<118>>)>>)>>,
                                 <<<<98>>, JsArray(<<>>)>> >>
    /\ BuiltQuery = << <<<<97>>, <<118>>>>, <<<<97>>, <<118>>>> >>
    /\ probe.url.search = <<97, 61, 118, 38, 97, 61, 118>>

----------------------------------------------------------------------------
(* Properties of the request body, under Spec.                             *)

\* the body the caller gave to this call
CallerBody == FacadeRequest(call.inv).options.body

\* the Content-Type of the merged headers, before the body is looked at
MergedHasContentType ==
    HeadersHas(client.defaultHeaders, S_ContentType) \/ HeadersHas(CallerHeaders, S_ContentType)

MergedContentType ==
    IF HeadersHas(CallerHeaders, S_ContentType) THEN HeadersGet(CallerHeaders, S_ContentType)
    ELSE HeadersGet(client.defaultHeaders, S_ContentType)

\* the Content-Type that went out is the one of the merged headers, none
\* when they have none
ContentTypeUntouched ==
    IF MergedHasContentType
      THEN /\ HeadersHas(call.request.headers, S_ContentType)
           /\ HeadersGet(call.request.headers, S_ContentType) = MergedContentType
      ELSE ~HeadersHas(call.request.headers, S_ContentType)

\* 'null', '{"name":"n"}', '{"_id":"book:1","name":"n"}'
S_nameJson == <<123,34,110,97,109,101,34,58,34,110,34,125>>
S_upsertJson ==
    <<123,34,95,105,100,34,58,34,98,111,111,107,58,49,34,44,34,110,97,109,101,34,58,34,110,34,125>>

JsonTextOf(body) ==
    IF body = JsNull THEN S_null
    ELSE IF body = UpsertInput THEN S_upsertJson
    ELSE S_nameJson

IsJsonCoded == CallerBody.t \in {"null", "number", "boolean", "array", "object"}

\* C12: a body that is neither undefined nor a raw transport type (null and
\* plain objects included) is sent as the JSON text of the value, and
\* Content-Type is set to application/json exactly when the merged headers
\* hold no Content-Type; a Content-Type that was set is sent unchanged.
C12_JsonBodyAndContentType ==
    (Sent /\ IsJsonCoded) =>
        /\ call.request.body = JsString(JsonTextOf(CallerBody))
        /\ HeadersHas(call.request.headers, S_ContentType)
        /\ HeadersGet(call.request.headers, S_ContentType) =
             IF MergedHasContentType THEN MergedContentType ELSE S_application_json

\* an object went out as JSON text under the caller's "content-type: text/plain"
C12_Witness ==
    /\ Sent
    /\ CallerBody = UpsertInput
    /\ HeadersHas(CallerHeaders, S_ContentType)
    /\ call.request.body = JsString(S_upsertJson)
    /\ HeadersGet(call.request.headers, S_ContentType) = HeadersGet(CallerHeaders, S_ContentType)
    /\ HeadersGet(call.request.headers, S_ContentType) # S_application_json

\* C13: a body of a raw transport type (string, Blob, ArrayBuffer,
\* Uint8Array, ReadableStream, FormData, URLSearchParams) goes to the
\* transport as it is, and for an undefined body none is passed; in both
\* cases request adds no Content-Type and leaves an existing one unchanged.
C13_RawBodyPassedThrough ==
    (Sent /\ ~IsJsonCoded) =>
        /\ call.request.body = CallerBody
        /\ ContentTypeUntouched

\* a Blob went out as it was, without any Content-Type
C13_Witness ==
    /\ Sent
    /\ CallerBody = JsRaw("Blob")
    /\ call.request.body = JsRaw("Blob")
    /\ ~HeadersHas(call.request.headers, S_ContentType)

----------------------------------------------------------------------------
(* Properties of the facades, under Spec.                                  *)

FacadeOps == ListOps \cup PostOps \cup {"docs.get", "docs.delete"}

\* a facade call has come to its end
FacadeDone == call.pc = "done" /\ call.inv.op \in FacadeOps

VerbOf(op) ==
    IF op \in ListOps \cup {"docs.get"} THEN "GET"
    ELSE IF op = "docs.delete" THEN "DELETE"
    ELSE "POST"

\* "/notes", "/books", "/tags", "/files" or "/" and the id
PathOf(inv) ==
    IF inv.op \in {"notes.list", "notes.upsert"} THEN <<47,110,111,116,101,115>>
    ELSE IF inv.op \in {"books.list", "books.upsert"} THEN <<47,98,111,111,107,115>>
    ELSE IF inv.op \in {"tags.list", "tags.upsert"} THEN <<47,116,97,103,115>>
    ELSE IF inv.op \in {"files.list", "files.create"} THEN <<47,102,105,108,101,115>>
    ELSE <<47>> \o inv.docId

\* "?limit=10"
S_queryLimit10 == <<63,108,105,109,105,116,61,49,48>>

\* the path as it stands in the URL of the request: after the base, or,
\* where it begins with "//", after the scheme of the base alone
TargetOf(inv) ==
    IF StartsWith(PathOf(inv), <<47, 47>>) THEN <<104,116,116,112,58>> \o PathOf(inv)
    ELSE client.baseUrl \o PathOf(inv)

\* the one transport call of the facade call has the verb and the path
FixedVerbAndPath ==
    /\ call.request.method = VerbOf(call.inv.op)
    /\ call.request.url = TargetOf(call.inv)
                            \o (IF call.inv.params = LimitParams THEN S_queryLimit10 ELSE <<>>)

\* C14 as stated: every facade operation invokes the transport exactly
\* once, whatever the outcome, with a fixed verb and path.
C14_ExactlyOneTransportCall ==
    FacadeDone => (call.fetches = 1 /\ FixedVerbAndPath)

\* the request URL can be built from the client's base
UrlBuilds(inv) == NewUrl(PathOf(inv), client.baseUrl).ok

\* C14 as amended: every facade operation invokes the transport at most
\* once and never again (no retry): exactly once, with the fixed verb and
\* path, when the request URL can be built, and not at all when new URL
\* throws on the client's baseUrl.
C14_OneTransportCallWhenUrlBuilds ==
    /\ call.fetches <= 1
    /\ FacadeDone =>
          IF UrlBuilds(call.inv) THEN call.fetches = 1 /\ FixedVerbAndPath
          ELSE call.fetches = 0 /\ call.outcome.kind = "throw"
               /\ call.outcome.error.name = "TypeError"

\* docs.delete of note:1 ended in an InkdropError after one DELETE /note:1
C14_Witness ==
    /\ FacadeDone
    /\ call.inv.op = "docs.delete"
    /\ call.inv.docId = S_note1
    /\ call.fetches = 1
    /\ call.request.method = "DELETE"
    /\ call.request.url = DefaultBaseUrl \o <<47>> \o S_note1
    /\ call.outcome.kind = "throw"
    /\ call.outcome.error.name = "InkdropError"

MutationOps == PostOps \cup {"docs.delete"}

\* an object with boolean ok, string id and string rev
IsMutationShape(x) ==
    /\ x.t = "object"
    /\ {"ok", "id", "rev"} \subseteq DOMAIN x.fields
    /\ x.fields["ok"].t = "boolean"
    /\ x.fields["id"].t = "string"
    /\ x.fields["rev"].t = "string"

\* C15: notes.upsert, books.upsert, tags.upsert, files.create and
\* docs.delete return a value only if the 2xx payload is an object with
\* boolean ok, string id and string rev; for any other 2xx payload they fail
\* with a validation error.
C15_MutationResponseValidated ==
    /\ (Returned2xx /\ call.inv.op \in MutationOps) =>
          IF IsMutationShape(call.result.value)
            THEN call.outcome = Return(call.result.value)
            ELSE IsValidationError(call.outcome)
    /\ (call.pc = "done" /\ call.inv.op \in MutationOps /\ call.outcome.kind = "return") =>
          (Returned2xx /\ IsMutationShape(call.outcome.value))

\* books.upsert got a 200 with ok and id but no rev, and failed validation
C15_Witness ==
    /\ Returned2xx
    /\ call.inv.op = "books.upsert"
    /\ call.result.value = MutationWithoutRev
    /\ IsValidationError(call.outcome)

\* the transport has failed in this call
TransportFailed == call.pc \in {"settled", "done"} /\ call.raised.name # "none"

\* C16: if the transport fails (connection refused, timeout, abort), request
\* fails with exactly the error the transport raised, not wrapped into an
\* InkdropError or a validation error, and the caller's signal is the one
\* handed to the transport.
C16_TransportErrorPropagates ==
    /\ TransportFailed =>
          /\ call.result = Throw(call.raised)
          /\ call.raised.name \notin {"InkdropError", "AssertError"}
          /\ call.pc = "done" => call.outcome = Throw(call.raised)
    /\ Sent => call.request.signal = FacadeRequest(call.inv).options.signal

\* a call made with a signal was aborted, and ended in the AbortError
C16_Witness ==
    /\ call.pc = "done"
    /\ call.raised.name = "AbortError"
    /\ call.request.signal = AbortSignal
    /\ call.outcome = Throw(call.raised)

----------------------------------------------------------------------------
(* Properties of calls in flight together, under SpecConcurrent.           *)

\* the client as it was constructed
FreshClient == NewInkdropClient(client.options)

\* the call from its start as the transport's answer to c takes it on
AnsweredAs(c, start) ==
    IF start.pc = "settled" THEN Continued(start)
    ELSE IF c.raised.name # "none" THEN Continued(Rejected(start, c.raised))
    ELSE IF c.response.status = 204 THEN Continued(Resolved(start, c.response))
    ELSE Continued(Settled(Resolved(start, c.response), ReadBody(c.response)))

\* the call as it ends when it is the only one made on the client as
\* constructed and the transport answers it as it answered c
Alone(c) == AnsweredAs(c, CallFrom(FreshClient, c.inv, FacadeRequest(c.inv)))

\* the next step of a call in flight is possible whatever the other calls
\* are doing
CanStep(i) ==
    CASE probe.calls[i].pc = "fetch" ->
           /\ ENABLED FetchRejectAt(i, ConnectionRefused)
           /\ \A resp \in ConcurrentResponses : ENABLED FetchResolveAt(i, resp)
      [] probe.calls[i].pc = "body" -> ENABLED BodySettleAt(i)
      [] probe.calls[i].pc = "settled" -> ENABLED ContinueAt(i)
      [] OTHER -> TRUE

\* C17: for calls issued concurrently on one client, under every
\* interleaving of their transport invocations and response completions,
\* the outcome of each call (and the request it makes) is determined by its
\* own arguments and its own response alone; no call waits for another.
C17_CallsIndependent ==
    \A i \in CallIds :
       /\ probe.calls[i].pc = "done" => probe.calls[i] = Alone(probe.calls[i])
       /\ CanStep(i)

\* call 1 was issued first, with a header of its own, and is still waiting
\* for the transport while call 2, issued after it, has returned its notes
C17_Witness ==
    /\ probe.issued = <<1, 2>>
    /\ probe.calls[1].pc = "fetch"
    /\ probe.calls[1].inv.op = "request"
    /\ probe.calls[2].pc = "done"
    /\ probe.calls[2].inv.op = "notes.list"
    /\ probe.calls[2].outcome = Return(JsonArray(<<FullNote>>))
    /\ probe.calls[2] = Alone(probe.calls[2])
    /\ CanStep(1)

----------------------------------------------------------------------------
(* Round trip of a document, under SpecRoundTrip.                          *)

\* the upsert of the document docs.get returned has come back with a value
Resubmission == probe.stage = "upsert" /\ call.pc = "done" /\ call.outcome.kind = "return"

\* "_id":"<the _id of doc>" as it stands in the JSON text of doc
IdMember(doc) == JsonQuote(S_id) \o <<58>> \o JsonQuote(Utf16Of(Prop(doc, "_id").s))

\* C18 as stated: for every document docs.get returned, handing its fields
\* to the matching upsert gives a MutationResponse whose id is the
\* document's _id.
C18_RoundTripIdMatches ==
    Resubmission => Prop(call.outcome.value, "id") = Prop(probe.doc, "_id")

\* C18 amended: the document docs.get returned goes out, _id included, as
\* the JSON body of one POST to the path of its resource, and what the upsert
\* returns is the 2xx payload of the server as it came, a MutationResponse;
\* its id is the server's, which the client does not compare with the _id.
C18_RoundTripIdFromServer ==
    probe.stage = "upsert" =>
      /\ call.fetches = 1
      /\ call.request.method = "POST"
      /\ call.request.url = DefaultBaseUrl \o ResourcePath(call.inv.op)
      /\ call.request.body.t = "string"
      /\ Includes(call.request.body.s, IdMember(probe.doc))
      /\ Resubmission =>
            /\ InRange2xx(call.response.status)
            /\ call.outcome.value = Decoded(call.response)
            /\ IsMutationShape(call.outcome.value)

C18_Witness ==
    /\ Resubmission
    /\ probe.doc = FullNote
    /\ call.inv.op = "notes.upsert"
    /\ call.outcome = Return(MutationOk)
    /\ Prop(call.outcome.value, "id") = Prop(probe.doc, "_id")

----------------------------------------------------------------------------
(* A client whose baseUrl is no absolute URL, under Spec.                  *)

\* the baseUrl option was given and is no absolute URL
BaseUrlInvalid ==
    client.options.baseUrl.present /\ ~ParseAbsoluteUrl(client.options.baseUrl.url).ok

InvalidUrlError == Throw([name |-> "TypeError", from |-> "URL"])

\* C19: on a client constructed with a baseUrl that is no absolute URL (the
\* empty string, with username "" and password "") every operation fails
\* with the TypeError of new URL before the transport is called, so
\* notes.list() fails, docs.get is not reached, and no documents come back.
C19_InvalidBaseUrlFails ==
    BaseUrlInvalid =>
      /\ call.pc \in {"idle", "settled", "done"}
      /\ call.fetches = 0
      /\ call.pc # "idle" => call.result = InvalidUrlError
      /\ call.pc = "done" => call.outcome = InvalidUrlError

C19_Witness ==
    /\ client.options.baseUrl = [present |-> TRUE, url |-> <<>>]
    /\ client.username = <<>>
    /\ client.password = <<>>
    /\ call.pc = "done"
    /\ call.inv.op = "notes.list"
    /\ call.fetches = 0
    /\ call.outcome = InvalidUrlError

----------------------------------------------------------------------------
(* The order of the steps of one facade call, under Spec.                  *)

IsApiError(outcome) == outcome.kind = "throw" /\ outcome.error.name = "InkdropError"

\* the error is one the transport raised, from fetch or from the body stream
IsTransportError(outcome) ==
    /\ outcome.kind = "throw"
    /\ outcome.error.name \in {"TypeError", "AbortError"}
    /\ outcome.error.from = "transport"

\* how many of the three kinds of failure the outcome is of
KindsOf(outcome) ==
    (IF IsApiError(outcome) THEN 1 ELSE 0)
    + (IF IsValidationError(outcome) THEN 1 ELSE 0)
    + (IF IsTransportError(outcome) THEN 1 ELSE 0)

\* C20: in a facade call the request is built, the transport called, the
\* body decoded, the status classified and the shape validated, in this
\* order: a non-2xx response that was received whole always ends in an
\* InkdropError, a validation error comes of a 2xx response only, and every
\* failed call ends in exactly one of InkdropError, validation error and
\* propagated transport error.
C20_StatusBeforeShapeAndErrorKinds ==
    FacadeDone =>
      /\ (call.response.status # 0 /\ ~call.response.body.broken
                                   /\ ~InRange2xx(call.response.status))
            => IsApiError(call.outcome)
      /\ IsValidationError(call.outcome)
            => (call.fetches = 1 /\ InRange2xx(call.response.status))
      /\ call.outcome.kind = "throw" => KindsOf(call.outcome) = 1

----------------------------------------------------------------------------
(* How the body of a response is decoded, under Spec.                      *)

\* a response other than a 204 has come and its body is being or was read
BodyAwaited == call.pc \in {"body", "settled", "done"} /\ call.response.status \notin {0, 204}

\* the value of the content-type header of the response holds application/json
DeclaresJson(resp) ==
    \E n \in DOMAIN resp.headers :
        /\ n = S_content_type
        /\ \E i \in 1..(Len(resp.headers[n]) - Len(S_application_json) + 1) :
              SubSeq(resp.headers[n], i, i + Len(S_application_json) - 1) = S_application_json

\* C21: for every response whose status is not 204, 2xx or not, request
\* reads the body with response.json() if and only if the content-type
\* header holds the substring application/json, and with response.text()
\* otherwise, also when the header is absent; the payload is the JSON value
\* or the text accordingly.
C21_JsonIffDeclared ==
    BodyAwaited =>
      /\ call.reader = "json" <=> DeclaresJson(call.response)
      /\ call.reader = "text" <=> ~DeclaresJson(call.response)
      /\ (call.pc # "body" /\ ~call.response.body.broken) =>
            IF DeclaresJson(call.response)
              THEN IF call.response.body.json.t = "SyntaxError"
                     THEN call.result = Throw([name |-> "SyntaxError"])
                     ELSE call.payload = call.response.body.json
              ELSE call.payload = JsonString(call.response.body.text)

C21_Witness ==
    /\ call.pc = "done"
    /\ call.response.status = 500
    /\ ContentTypeOf(call.response) = <<116,101,120,116,47,120,45>> \o S_application_json
    /\ call.reader = "json"
    /\ call.payload = FullBook
    /\ call.result.kind = "throw"
    /\ call.result.error.body = FullBook

----------------------------------------------------------------------------
(* The list operations, under Spec.                                        *)

\* the predicate a list operation asks of every element
ElementPredicate(op) ==
    CASE op = "notes.list" -> "isNoteDoc"
      [] op = "books.list" -> "isBookDoc"
      [] op = "tags.list" -> "isTagDoc"
      [] op = "files.list" -> "isFileDoc"

\* a list operation has ended on a 2xx response whose body was decoded
ListedOn2xx ==
    /\ FacadeDone
    /\ call.inv.op \in ListOps
    /\ call.response.status # 0
    /\ InRange2xx(call.response.status)
    /\ BodyDecodes(call.response)

AllElementsSatisfy(op, x) ==
    x.t = "array" /\ \A i \in 1..Len(x.items) : Satisfies(ElementPredicate(op), x.items[i])

\* C22: a list operation returns the 2xx payload as it came, the same
\* elements in the same number and order, when it is an array whose every
\* element satisfies the predicate of the resource; when the payload is no
\* array or one element fails, the call fails with a validation error and
\* returns nothing.
C22_ListAllOrNothing ==
    ListedOn2xx =>
      IF AllElementsSatisfy(call.inv.op, Decoded(call.response))
        THEN /\ call.outcome.kind = "return"
             /\ call.outcome.value.t = "array"
             /\ call.outcome.value.items = Decoded(call.response).items
        ELSE IsValidationError(call.outcome)

C22_Witness ==
    /\ ListedOn2xx
    /\ call.inv.op = "notes.list"
    /\ call.outcome.kind = "return"
    /\ call.outcome.value.items = <<SecondNote, FullNote>>

----------------------------------------------------------------------------
(* What a returned document always holds, under SpecPred.                  *)

\* x has a string _id and a string _rev, and its createdAt and updatedAt
\* are numbers where it has them
HasDocumentBase(x) ==
    /\ x.t = "object"
    /\ {"_id", "_rev"} \subseteq DOMAIN x.fields
    /\ x.fields["_id"].t = "string"
    /\ x.fields["_rev"].t = "string"
    /\ \A k \in {"createdAt", "updatedAt"} \cap DOMAIN x.fields : x.fields[k].t = "number"

\* x is a markdown note in one of the five states
HasNoteState(x) ==
    /\ {"doctype", "status"} \subseteq DOMAIN x.fields
    /\ x.fields["doctype"] = JsonString("markdown")
    /\ x.fields["status"] \in
         {JsonString(st) : st \in {"none", "active", "onHold", "completed", "dropped"}}

\* C23: every document docs.get or a list operation returns has a string
\* _id and a string _rev, and numbers for createdAt and updatedAt where they
\* are present; every note notes.list returns has doctype "markdown" and a
\* status among none, active, onHold, completed, dropped.
C23_ReturnedDocumentsWellFormed ==
    probe.done =>
      /\ probe.result.kind = "return" => HasDocumentBase(probe.result.value)
      /\ \A op \in ListOps :
            probe.listed[op].kind = "return" =>
              \A i \in 1..Len(probe.listed[op].value.items) :
                 /\ HasDocumentBase(probe.listed[op].value.items[i])
                 /\ op = "notes.list" => HasNoteState(probe.listed[op].value.items[i])

C23_Witness ==
    /\ probe.done
    /\ probe.payload = WithField(FullNote, "createdAt", JsonUndefined)
    /\ probe.result = Return(probe.payload)
    /\ probe.listed["notes.list"] = Return(JsonArray(<<probe.payload>>))
    /\ probe.listed["books.list"].kind = "throw"

----------------------------------------------------------------------------
(* The client's configuration across calls, under SpecConcurrent.          *)

\* the names (lower case) of the headers the caller gave to the call of inv
OwnHeaderNames(inv) == DOMAIN NewHeaders(FacadeRequest(inv).options.headers)

\* the call of inv carries a body that request codes as JSON
InfersContentType(inv) ==
    /\ FacadeRequest(inv).options.body.t # "undefined"
    /\ ~isBodyInitLike(FacadeRequest(inv).options.body)

\* every header of the request of c that the call did not supply, and that
\* is no Content-Type inferred for its own JSON body, is a default header of
\* the client as constructed, with its value
OnlyOwnAndDefaults(c) ==
    \A n \in DOMAIN c.request.headers :
        (n \notin OwnHeaderNames(c.inv) /\ ~(n = S_content_type /\ InfersContentType(c.inv)))
          => /\ n \in DOMAIN ConstructorHeaders(client.options)
             /\ c.request.headers[n] = ConstructorHeaders(client.options)[n]

\* C24: no request changes the client's configuration: whatever calls were
\* made and however they ended, baseUrl, credentials and default headers
\* are as the constructor set them, so no header one call supplied and no
\* Content-Type inferred for one call's JSON body is in the headers of a
\* call that did not supply it.
C24_ConfigurationUnchanged ==
    /\ client = NewInkdropClient(client.options)
    /\ \A i \in CallIds : probe.calls[i].request.ok => OnlyOwnAndDefaults(probe.calls[i])

C24_Witness ==
    /\ probe.issued = <<1, 2>>
    /\ probe.calls[1].inv.op = "request"
    /\ probe.calls[1].pc = "done"
    /\ HeadersHas(probe.calls[1].request.headers, S_ContentType)
    /\ HeadersGet(probe.calls[1].request.headers, S_Authorization) # basicAuthHeader(S_user, S_pass)
    /\ probe.calls[2].inv.op = "notes.list"
    /\ probe.calls[2].request.ok
    /\ ~HeadersHas(probe.calls[2].request.headers, S_ContentType)
    /\ HeadersGet(probe.calls[2].request.headers, S_Authorization) = basicAuthHeader(S_user, S_pass)
    /\ client = NewInkdropClient(client.options)

----------------------------------------------------------------------------
(* Where docs.get and docs.delete send the credentials, under Spec.        *)

\* scheme and authority (host and port) of an absolute URL
OriginOf(s) == <<ParseAbsoluteUrl(s).scheme, ParseAbsoluteUrl(s).host>>

\* a request of docs.get or docs.delete is handed to the transport with an
\* Authorization header
DocRequestSent ==
    /\ Sent
    /\ call.inv.op \in {"docs.get", "docs.delete"}
    /\ HeadersHas(call.request.headers, S_Authorization)

\* C25: for every document id passed to docs.get or docs.delete, one that
\* starts with "/" or holds "?" or "#" included, the URL handed to the
\* transport together with the client's Authorization header has the
\* scheme, host and port of the client's baseUrl.
C25_DocRequestsStayOnBaseOrigin ==
    DocRequestSent => OriginOf(call.request.url) = OriginOf(client.baseUrl)

----------------------------------------------------------------------------
(* A 204 answer to a facade operation, under Spec.                         *)

\* C26: when the server answers a facade operation (a list, an upsert,
\* files.create, docs.get, docs.delete) with status 204, the operation
\* fails with a validation error, the null payload satisfying none of the
\* predicates; and no facade operation ever returns null.
C26_NoContentFailsValidation ==
    FacadeDone =>
      /\ call.response.status = 204 =>
            (call.payload = JsonNull /\ IsValidationError(call.outcome))
      /\ call.outcome.kind = "return" => call.outcome.value # JsonNull

C26_Witness ==
    /\ FacadeDone
    /\ call.inv.op = "docs.delete"
    /\ call.response.status = 204
    /\ call.result = Return(JsonNull)
    /\ IsValidationError(call.outcome)

====
